---------------------------- MODULE Spec2Model ----------------------------
(***************************************************************************)
(* Castle Defense: the wave scheduler, the towers, the ledger and the game *)
(* state machine, as state machines translated from src/Castle_Defense.    *)
(*                                                                         *)
(* Time is counted in ticks of half a second (TicksPerSecond).  Fractional *)
(* configuration values are kept as integer ratios (x10 or a numerator and *)
(* a denominator); tower stats are fixed-point integers with StatScale     *)
(* units per 1.0.                                                          *)
(***************************************************************************)
EXTENDS Integers, Sequences, FiniteSets, TLC

VARIABLES
    current_state,      \* GameStateManager.current_state, by name
    current_wave,       \* WaveManager.current_wave
    active_monsters,    \* WaveManager.active_monsters, a sequence of monster records
    spawn_timer,        \* WaveManager.spawn_timer, in ticks
    monsters_to_spawn,  \* WaveManager.monsters_to_spawn
    wave_active,        \* WaveManager.wave_active
    wave_completed,     \* WaveManager.wave_completed
    continuous_wave,    \* WaveManager.continuous_wave
    castle_health,      \* Castle.health
    resources,          \* ResourceManager.resources: kind -> amount
    towers,             \* Game.towers, a sequence of tower records
    playing_towers,     \* the list PlayingState.towers refers to
    towers_rebound,     \* Game.towers no longer is the list PlayingState holds
    placement_type,     \* TowerPlacementState.tower_type
    time_in_state,      \* GameOverState.time_in_state, in ticks
    go_current_wave,    \* GameOverState.current_wave
    setback_wave,       \* GameOverState.setback_wave
    ret,                \* the value returned by the last call of a harness action
    is_paused,          \* GameUI.is_paused
    paused,             \* PlayingState.paused
    autosaved,          \* the successive Playing updates, up to the last step,
                        \* in which check_autosave called save_game
    calls               \* the exit and enter calls change_state made in the last step

vars == << current_state, current_wave, active_monsters, spawn_timer,
           monsters_to_spawn, wave_active, wave_completed, continuous_wave,
           castle_health, resources, towers, playing_towers, towers_rebound,
           placement_type, time_in_state, go_current_wave, setback_wave, ret,
           is_paused, paused, autosaved, calls >>

(***************************************************************************)
(* Bounds of the model.                                                    *)
(***************************************************************************)
MaxWave == 21          \* start_next_wave is explored up to this wave number
MaxActive == 2         \* monsters simultaneously in active_monsters
MaxDt == 1             \* largest time step of one update, in ticks
MaxSaves == 2          \* successive autosaves counted
MaxQuota == 5          \* waves with a larger spawn quota are started, not played
MaxCoinGain == 1       \* kill credits explored on top of the ledger's start
MaxLevel == 3          \* highest level explored on one upgrade path
MaxTowers == 1         \* towers placed in the wave specification
MaxPos == 3            \* positions a tower can be placed at: 0..MaxPos
CastleMaxHealth == 2   \* Castle.max_health, in units of one monster hit
MaxMonsterHealth == 1  \* a spawned monster's health, in units of one tower hit
MaxCalls == 3          \* calls of the death handler on one scheduler
MaxAttackDt == 2       \* largest time step of a tower's update on the field
MaxUpdates == 3        \* updates of the tower on one field of monsters
FieldSize == 3         \* monsters on the field a tower attacks
MaxCostLevel == 6      \* highest level of a path whose costs are computed
MaxSpawnWave == 60     \* highest wave whose spawns are explored
MaxPlaced == 3         \* towers placed on the building site
MaxSitePos == 7        \* positions of the building site: 0..MaxSitePos

(***************************************************************************)
(* Program constants.                                                      *)
(***************************************************************************)
TicksPerSecond == 2                    \* dt is in seconds; one tick is 0.5 s
MONSTER_SPAWN_INTERVAL == 3            \* 1.5 s, in ticks
WAVE_MONSTER_COUNT_BASE == 5
WAVE_MONSTER_COUNT_MULTIPLIER_X10 == 15 \* 1.5
AUTO_CONTINUE_TIME == 30               \* 15.0 s, in ticks
SETBACK_THRESHOLD == 11
SETBACK_WAVES == 10
BOSS_WAVE_PERIOD == 10
KILL_COINS == 1
autosave_waves == 10                   \* SaveManager.autosave_waves
TOWER_UPGRADE_COST_MULTIPLIER_X10 == 15
TOWER_MONSTER_COIN_UPGRADE_MULTIPLIER_X10 == 13
TOWER_DAMAGE_UPGRADE_MULTIPLIER_X10 == 13
TOWER_ATTACK_SPEED_UPGRADE_MULTIPLIER_X10 == 12
TOWER_RANGE_UPGRADE_MULTIPLIER_X10 == 12
AOE_RADIUS_MULTIPLIER_X10 == 13        \* ITEM_EFFECTS["Unstoppable Force"]
SPLASH_DAMAGE_RADIUS == 30             \* ITEM_EFFECTS["Unstoppable Force"]
ITEM_SLOTS == 2
TOWER_SIZE == 2                        \* 40 reference pixels; a position step is 20

None == "None"

Min(a, b) == IF a <= b THEN a ELSE b
Max(a, b) == IF a >= b THEN a ELSE b

RECURSIVE Pow(_, _)
Pow(b, e) == IF e = 0 THEN 1 ELSE b * Pow(b, e - 1)

\* fixed-point unit of the tower stats: StatScale stands for 1.0
StatScale == Pow(10, 5)

(***************************************************************************)
(* config.py: resources, towers, items.                                    *)
(***************************************************************************)
ResourceKinds == { "Stone", "Iron", "Copper", "Thorium", "Monster Coins",
                   "Force Core",
                   "Spirit Core", "Magic Core", "Void Core",
                   "Unstoppable Force", "Serene Spirit" }

INITIAL_RESOURCES ==
    [ k \in ResourceKinds |->
        CASE k = "Stone" -> 100
          [] k = "Monster Coins" -> 50
          [] OTHER -> 0 ]

TowerTypes == { "Archer", "Sniper", "Splash", "Frozen" }
Items == { "Unstoppable Force", "Serene Spirit" }

\* TOWER_TYPES: damage; attack_speed x10; range; aoe_radius; slow_effect x10;
\* slow_duration x10; cost.  A key a type does not have is 0
TOWER_TYPES ==
    [ Archer |-> [ damage |-> 10, attack_speed_x10 |-> 15, range |-> 150,
                   aoe_radius |-> 0, slow_effect_x10 |-> 0,
                   slow_duration_x10 |-> 0, cost |-> [ Stone |-> 20 ] ],
      Sniper |-> [ damage |-> 50, attack_speed_x10 |-> 5, range |-> 300,
                   aoe_radius |-> 0, slow_effect_x10 |-> 0,
                   slow_duration_x10 |-> 0,
                   cost |-> [ Stone |-> 40, Iron |-> 10 ] ],
      Splash |-> [ damage |-> 20, attack_speed_x10 |-> 8, range |-> 200,
                   aoe_radius |-> 50, slow_effect_x10 |-> 0,
                   slow_duration_x10 |-> 0,
                   cost |-> [ Stone |-> 30, Iron |-> 5, Copper |-> 2 ] ],
      Frozen |-> [ damage |-> 5, attack_speed_x10 |-> 10, range |-> 180,
                   aoe_radius |-> 0, slow_effect_x10 |-> 5,
                   slow_duration_x10 |-> 30,
                   cost |-> [ Stone |-> 25, Iron |-> 5, Copper |-> 3 ] ] ]

TOWER_MONSTER_COIN_COSTS ==
    [ Archer |-> 15, Sniper |-> 50, Splash |-> 65, Frozen |-> 65 ]

(***************************************************************************)
(* ResourceManager (features/resources.py): the ledger interface.          *)
(***************************************************************************)
\* a cost map is a record whose fields are resource kinds
get_resource(res, kind) == res[kind]

has_resources(res, cost) ==
    \A k \in DOMAIN cost : res[k] >= cost[k]

add_resource(res, kind, amount) ==
    [ res EXCEPT ![kind] = @ + amount ]

\* returns << new ledger, success >>; an unaffordable spend changes nothing
spend_resource(res, kind, amount) ==
    IF res[kind] >= amount
    THEN << [ res EXCEPT ![kind] = @ - amount ], TRUE >>
    ELSE << res, FALSE >>

\* all-or-nothing spend of a cost map
spend_resources(res, cost) ==
    IF has_resources(res, cost)
    THEN << [ k \in DOMAIN res |->
                IF k \in DOMAIN cost THEN res[k] - cost[k] ELSE res[k] ],
            TRUE >>
    ELSE << res, FALSE >>

\* spend_resources_for_tower: the cost map and the Monster Coins together
spend_resources_for_tower(res, cost, monster_coin_cost) ==
    IF has_resources(res, cost) /\ res["Monster Coins"] >= monster_coin_cost
    THEN << [ k \in DOMAIN res |->
                (IF k \in DOMAIN cost THEN res[k] - cost[k] ELSE res[k])
                - (IF k = "Monster Coins" THEN monster_coin_cost ELSE 0) ],
            TRUE >>
    ELSE << res, FALSE >>

(***************************************************************************)
(* Monsters (features/monsters): a record per monster object.  The id      *)
(* stands for the object's identity, which `monster in active_monsters`    *)
(* compares.  The wave specifications do not track the positions: there    *)
(* the monsters within a tower's range are an input of the tick.           *)
(***************************************************************************)
BossTypes == << "Force", "Spirit", "Magic", "Void" >>
Regular == "Regular"

IsBoss(m) == m.kind # Regular

Monster(id, kind, health) ==
    [ id |-> id, kind |-> kind, health |-> health,
      is_dead |-> FALSE, reached_castle |-> FALSE,
      position |-> 0, flying |-> FALSE ]

\* Monster.take_damage: health is reduced and clamped at 0; a monster whose
\* health reaches 0 is flagged dead; the result tells whether it is still alive
take_damage(m, amount) ==
    LET h == Max(0, m.health - amount)
    IN  [ m EXCEPT !.health = h, !.is_dead = (@ \/ h <= 0) ]

\* contact damage to the castle, in castle health units
ContactDamage(m) == IF IsBoss(m) THEN 2 ELSE 1

\* BossMonster.drop_loot: the boss kind's core
drop_loot(m) == [ k \in { m.kind \o " Core" } |-> 1 ]

Ids(monsters) == { monsters[i].id : i \in DOMAIN monsters }

(***************************************************************************)
(* WaveManager (features/monsters/wave_manager.py).  The scheduler is the  *)
(* record wm of its fields.                                                *)
(***************************************************************************)
WaveManager ==
    [ current_wave |-> current_wave, active_monsters |-> active_monsters,
      spawn_timer |-> spawn_timer, monsters_to_spawn |-> monsters_to_spawn,
      wave_active |-> wave_active, wave_completed |-> wave_completed ]

WaveManagerInit ==
    [ current_wave |-> 0, active_monsters |-> << >>, spawn_timer |-> 0,
      monsters_to_spawn |-> 0, wave_active |-> FALSE, wave_completed |-> TRUE ]

IsBossWave(w) == w % BOSS_WAVE_PERIOD = 0

\* int(base_count + current_wave * 0.5 * multiplier ** (current_wave // 10))
RegularWaveCount(w) ==
    LET e == w \div 10
    IN  WAVE_MONSTER_COUNT_BASE
        + (w * Pow(WAVE_MONSTER_COUNT_MULTIPLIER_X10, e)) \div (2 * Pow(10, e))

\* start_next_wave without line 56, `self.wave_completed = False`
start_next_wave_keeps_completed(wm) ==
    IF ~wm.wave_active
    THEN [ wm EXCEPT !.current_wave = @ + 1,
                     !.wave_active = TRUE,
                     !.spawn_timer = 0,
                     !.monsters_to_spawn =
                         IF IsBossWave(wm.current_wave + 1)
                         THEN 1
                         ELSE RegularWaveCount(wm.current_wave + 1) ]
    ELSE wm

\* start_next_wave without the test of wave_active
start_next_wave_while_active(wm) ==
    [ wm EXCEPT !.current_wave = @ + 1,
                !.wave_active = TRUE,
                !.wave_completed = FALSE,
                !.spawn_timer = 0,
                !.monsters_to_spawn =
                    IF IsBossWave(wm.current_wave + 1)
                    THEN 1
                    ELSE RegularWaveCount(wm.current_wave + 1) ]

\* start_next_wave with the wave number raised by 2
start_next_wave_skips_a_wave(wm) ==
    IF ~wm.wave_active
    THEN [ wm EXCEPT !.current_wave = @ + 2,
                     !.wave_active = TRUE,
                     !.wave_completed = FALSE,
                     !.spawn_timer = 0,
                     !.monsters_to_spawn =
                         IF IsBossWave(wm.current_wave + 1)
                         THEN 1
                         ELSE RegularWaveCount(wm.current_wave + 1) ]
    ELSE wm

\* start_next_wave: the scheduler after the call (the call returns ~wm.wave_active)
start_next_wave(wm) ==
    IF ~wm.wave_active
    THEN [ wm EXCEPT !.current_wave = @ + 1,
                     !.wave_active = TRUE,
                     !.wave_completed = FALSE,
                     !.spawn_timer = 0,
                     !.monsters_to_spawn =
                         IF IsBossWave(wm.current_wave + 1)
                         THEN 1
                         ELSE RegularWaveCount(wm.current_wave + 1) ]
    ELSE wm

\* get_boss_type without the `- 1` of the index
get_boss_type_from_zero(wm) ==
    BossTypes[((wm.current_wave \div 10) % Len(BossTypes)) + 1]

get_boss_type(wm) ==
    BossTypes[((wm.current_wave \div 10 - 1) % Len(BossTypes)) + 1]

\* the identity of a newly created monster object
FreshId(monsters) ==
    CHOOSE i \in 1..(Len(monsters) + 1) : i \notin Ids(monsters)

\* spawn_monster with the boss test taken on the wave before the current one
spawn_monster_previous_wave(wm, health) ==
    LET kind == IF IsBossWave(wm.current_wave - 1) THEN get_boss_type(wm) ELSE Regular
    IN  [ wm EXCEPT !.active_monsters =
            Append(@, Monster(FreshId(@), kind, health)) ]

\* spawn_monster: a boss on a boss wave, a regular monster otherwise
spawn_monster(wm, health) ==
    LET kind == IF IsBossWave(wm.current_wave) THEN get_boss_type(wm) ELSE Regular
    IN  [ wm EXCEPT !.active_monsters =
            Append(@, Monster(FreshId(@), kind, health)) ]

\* handle_monster_death without the early return of lines 227-229
handle_monster_death_unguarded(wm, res, m) ==
    LET coins == add_resource(res, "Monster Coins", KILL_COINS)
        loot == drop_loot(m)
        looted == IF IsBoss(m)
                  THEN [ k \in DOMAIN coins |->
                           IF k \in DOMAIN loot THEN coins[k] + loot[k]
                           ELSE coins[k] ]
                  ELSE coins
    IN  << wm, looted >>

\* handle_monster_death(monster, resource_manager) for the monster object
\* m: << scheduler, ledger >> after the call
handle_monster_death(wm, res, m) ==
    IF m.id \notin Ids(wm.active_monsters)
    THEN << wm, res >>
    ELSE LET marked ==
               [ i \in DOMAIN wm.active_monsters |->
                   IF wm.active_monsters[i].id = m.id
                   THEN [ wm.active_monsters[i] EXCEPT !.is_dead = TRUE ]
                   ELSE wm.active_monsters[i] ]
             coins == add_resource(res, "Monster Coins", KILL_COINS)
             loot == drop_loot(m)
             looted == IF IsBoss(m)
                       THEN [ k \in DOMAIN coins |->
                                IF k \in DOMAIN loot THEN coins[k] + loot[k]
                                ELSE coins[k] ]
                       ELSE coins
         IN  << [ wm EXCEPT !.active_monsters = marked ], looted >>

(***************************************************************************)
(* Castle (features/castle.py), in units of one monster hit.               *)
(***************************************************************************)
\* Castle.update: passive regeneration, clamped to max_health
Castle_update(health, regen) == Min(CastleMaxHealth, health + regen)

\* Castle.take_damage: health is reduced and clamped at 0
Castle_take_damage(health, amount) == Max(0, health - amount)

(***************************************************************************)
(* Monster.update and the body of WaveManager.update.                      *)
(***************************************************************************)
\* Monster.update: a dead monster does nothing; a living monster moves and,
\* when it reaches the castle on this tick, attacks it and flags itself
Monster_update(m, arrives) ==
    IF ~m.is_dead /\ arrives THEN [ m EXCEPT !.reached_castle = TRUE ] ELSE m

\* the value Monster.update returns: whether the monster is still active
still_active(m) == ~m.is_dead /\ ~m.reached_castle

\* game.game_instance, which Game.__init__ sets to the game
game_instance == TRUE

RECURSIVE SumDamage(_, _)
SumDamage(monsters, arrive) ==
    IF monsters = << >> THEN 0
    ELSE (IF ~Head(monsters).is_dead /\ Head(monsters).id \in arrive
          THEN ContactDamage(Head(monsters)) ELSE 0)
         + SumDamage(Tail(monsters), arrive)

\* the loop over monsters_to_remove: << scheduler, ledger >> after it
RECURSIVE RemoveMonsters(_, _, _)
RemoveMonsters(wm, res, to_remove) ==
    IF to_remove = << >> THEN << wm, res >>
    ELSE LET m == Head(to_remove)
             handled == IF m.is_dead /\ ~m.reached_castle /\ game_instance
                        THEN handle_monster_death(wm, res, m)
                        ELSE << wm, res >>
             removed == [ handled[1] EXCEPT !.active_monsters =
                            SelectSeq(@, LAMBDA x : x.id # m.id) ]
         IN  IF m.id \in Ids(wm.active_monsters)
             THEN RemoveMonsters(removed, handled[2], Tail(to_remove))
             ELSE RemoveMonsters(wm, res, Tail(to_remove))

\* update without its completion test (lines 119-123)
check_wave_complete_absent(wm) == wm

\* the completion check that ends WaveManager.update
check_wave_complete(wm) ==
    IF Len(wm.active_monsters) = 0 /\ wm.monsters_to_spawn = 0
    THEN [ wm EXCEPT !.wave_active = FALSE, !.wave_completed = TRUE ]
    ELSE wm

\* the spawn step without line 93, `self.monsters_to_spawn -= 1`
spawn_step_keeps_quota(wm, dt, health) ==
    LET t == Min(wm.spawn_timer + dt, MONSTER_SPAWN_INTERVAL)
    IN  IF t >= MONSTER_SPAWN_INTERVAL /\ wm.monsters_to_spawn > 0
        THEN [ spawn_monster(wm, health) EXCEPT !.spawn_timer = 0 ]
        ELSE [ wm EXCEPT !.spawn_timer = t ]

\* the spawn step of WaveManager.update; the timer saturates at the interval,
\* the only value it is compared with
spawn_step(wm, dt, health) ==
    LET t == Min(wm.spawn_timer + dt, MONSTER_SPAWN_INTERVAL)
    IN  IF t >= MONSTER_SPAWN_INTERVAL /\ wm.monsters_to_spawn > 0
        THEN [ spawn_monster(wm, health) EXCEPT
                 !.monsters_to_spawn = @ - 1, !.spawn_timer = 0 ]
        ELSE [ wm EXCEPT !.spawn_timer = t ]

\* WaveManager.update(dt, castle): [ wm, castle, res ] after the call.
\* arrive: the ids of the monsters that reach the castle on this tick;
\* health: the health of the monster the factory creates, if one is spawned
WaveManager_update(wm, castle, res, dt, arrive, health) ==
    IF ~wm.wave_active
    THEN [ wm |-> wm, castle |-> castle, res |-> res ]
    ELSE LET spawned == spawn_step(wm, dt, health)
             moved == [ i \in DOMAIN spawned.active_monsters |->
                          Monster_update(spawned.active_monsters[i],
                                         spawned.active_monsters[i].id \in arrive) ]
             hit == Castle_take_damage(castle,
                                       SumDamage(spawned.active_monsters, arrive))
             to_remove == SelectSeq(moved, LAMBDA m : ~still_active(m))
             cleaned == RemoveMonsters([ spawned EXCEPT !.active_monsters = moved ],
                                       res, to_remove)
         IN  [ wm |-> check_wave_complete(cleaned[1]),
               castle |-> hit, res |-> cleaned[2] ]

(***************************************************************************)
(* Tower (features/towers/base_tower.py).  Stats are fixed-point: a stat   *)
(* x is kept as x * StatScale.                                             *)
(***************************************************************************)
FP(x) == x * StatScale

\* x * (m10 / 10)
MulX10(x, m10) == (x * m10) \div 10

\* utils.scale_value: a reference length scaled to the window (factor 1.8)
scale_value(v) == (v * 9) \div 5

\* Tower.__init__ followed by initialize_specific_properties
Tower(position, tower_type) ==
    LET cfg == TOWER_TYPES[tower_type]
    IN  [ position |-> position,
          tower_type |-> tower_type,
          level |-> 1,
          damage_level |-> 1,
          attack_speed_level |-> 1,
          range_level |-> 1,
          damage |-> FP(cfg.damage),
          attack_speed |-> FP(cfg.attack_speed_x10) \div 10,
          ref_range |-> FP(cfg.range),
          range |-> scale_value(FP(cfg.range)),
          base_damage |-> FP(cfg.damage),
          base_attack_speed |-> FP(cfg.attack_speed_x10) \div 10,
          base_range |-> scale_value(FP(cfg.range)),
          base_ref_range |-> FP(cfg.range),
          attack_timer |-> 0,
          item_slots |-> << None, None >>,
          has_item_effects |-> FALSE,
          splash_damage_enabled |-> FALSE,
          splash_damage_radius |-> 0,
          ref_aoe_radius |-> FP(cfg.aoe_radius),
          aoe_radius |-> scale_value(FP(cfg.aoe_radius)),
          base_ref_aoe_radius |-> FP(cfg.aoe_radius),
          base_aoe_radius |-> scale_value(FP(cfg.aoe_radius)),
          slow_effect |-> FP(cfg.slow_effect_x10) \div 10,
          slow_duration |-> FP(cfg.slow_duration_x10) \div 10 ]

\* the resource cost with the level left out of the formula
UpgradeCost_ignores_level(tower_type, level) ==
    LET base_cost == TOWER_TYPES[tower_type].cost
    IN  [ k \in DOMAIN base_cost |-> base_cost[k] ]

\* int(amount * TOWER_UPGRADE_COST_MULTIPLIER ** (level - 1)) per resource
UpgradeCost(tower_type, level) ==
    LET base_cost == TOWER_TYPES[tower_type].cost
    IN  [ k \in DOMAIN base_cost |->
            (base_cost[k] * Pow(TOWER_UPGRADE_COST_MULTIPLIER_X10, level - 1))
            \div Pow(10, level - 1) ]

\* int(base_cost * TOWER_MONSTER_COIN_UPGRADE_MULTIPLIER ** (level - 1))
UpgradeMonsterCoinCost(tower_type, level) ==
    (TOWER_MONSTER_COIN_COSTS[tower_type]
       * Pow(TOWER_MONSTER_COIN_UPGRADE_MULTIPLIER_X10, level - 1))
    \div Pow(10, level - 1)

calculate_damage_upgrade_cost(t) == UpgradeCost(t.tower_type, t.damage_level)
calculate_damage_upgrade_monster_coin_cost(t) ==
    UpgradeMonsterCoinCost(t.tower_type, t.damage_level)
calculate_attack_speed_upgrade_cost(t) ==
    UpgradeCost(t.tower_type, t.attack_speed_level)
calculate_attack_speed_upgrade_monster_coin_cost(t) ==
    UpgradeMonsterCoinCost(t.tower_type, t.attack_speed_level)
calculate_range_upgrade_cost(t) == UpgradeCost(t.tower_type, t.range_level)
calculate_range_upgrade_monster_coin_cost(t) ==
    UpgradeMonsterCoinCost(t.tower_type, t.range_level)

\* the effect of one equipped item on the stats, as in the loop of
\* apply_item_effects
apply_one_item(t, item) ==
    IF item = "Unstoppable Force"
    THEN IF t.tower_type = "Splash"
         THEN [ t EXCEPT
                  !.ref_aoe_radius = MulX10(@, AOE_RADIUS_MULTIPLIER_X10),
                  !.aoe_radius = scale_value(
                      MulX10(t.ref_aoe_radius, AOE_RADIUS_MULTIPLIER_X10)) ]
         ELSE IF t.tower_type = "Frozen"
         THEN [ t EXCEPT
                  !.ref_range = MulX10(@, AOE_RADIUS_MULTIPLIER_X10),
                  !.range = scale_value(
                      MulX10(t.ref_range, AOE_RADIUS_MULTIPLIER_X10)) ]
         ELSE [ t EXCEPT
                  !.splash_damage_enabled = TRUE,
                  !.splash_damage_radius = scale_value(FP(SPLASH_DAMAGE_RADIUS)) ]
    ELSE t

\* the reset without lines 450-451, which put the range back to its base
reset_to_base_keeps_range(t) ==
    [ t EXCEPT !.damage = t.base_damage,
               !.attack_speed = t.base_attack_speed,
               !.ref_aoe_radius = IF t.tower_type = "Splash"
                                  THEN t.base_ref_aoe_radius ELSE @,
               !.aoe_radius = IF t.tower_type = "Splash"
                              THEN t.base_aoe_radius ELSE @,
               !.splash_damage_enabled = FALSE,
               !.splash_damage_radius = 0 ]

\* the reset to base values that opens apply_item_effects
reset_to_base(t) ==
    [ t EXCEPT !.damage = t.base_damage,
               !.attack_speed = t.base_attack_speed,
               !.ref_range = t.base_ref_range,
               !.range = t.base_range,
               !.ref_aoe_radius = IF t.tower_type = "Splash"
                                  THEN t.base_ref_aoe_radius ELSE @,
               !.aoe_radius = IF t.tower_type = "Splash"
                              THEN t.base_aoe_radius ELSE @,
               !.splash_damage_enabled = FALSE,
               !.splash_damage_radius = 0 ]

apply_item_effects(t) ==
    LET r == reset_to_base(t)
    IN  IF \A i \in 1..ITEM_SLOTS : r.item_slots[i] = None
        THEN [ r EXCEPT !.has_item_effects = FALSE ]
        ELSE LET a == IF r.item_slots[1] # None
                      THEN apply_one_item(r, r.item_slots[1]) ELSE r
                 b == IF a.item_slots[2] # None
                      THEN apply_one_item(a, a.item_slots[2]) ELSE a
             IN  [ b EXCEPT !.has_item_effects = TRUE ]

\* the upgrade without line 303, the spend of the Monster Coins
upgrade_without_coin_spend(t, res, cost, monster_coin_cost, raised) ==
    IF ~has_resources(res, cost)
         \/ get_resource(res, "Monster Coins") < monster_coin_cost
    THEN [ t |-> t, res |-> res, ret |-> FALSE ]
    ELSE LET spent == spend_resources(res, cost)
         IN  IF spent[2]
             THEN [ t |-> apply_item_effects(raised), res |-> spent[1],
                    ret |-> TRUE ]
             ELSE [ t |-> t, res |-> res, ret |-> FALSE ]

\* the upgrade with the Monster Coin test of line 297 made after the spend of
\* the resources
upgrade_spends_before_coin_check(t, res, cost, monster_coin_cost, raised) ==
    LET spent == spend_resources(res, cost)
    IN  IF ~spent[2]
        THEN [ t |-> t, res |-> res, ret |-> FALSE ]
        ELSE IF get_resource(spent[1], "Monster Coins") < monster_coin_cost
        THEN [ t |-> t, res |-> spent[1], ret |-> FALSE ]
        ELSE [ t |-> apply_item_effects(raised),
               res |-> spend_resource(spent[1], "Monster Coins",
                                      monster_coin_cost)[1],
               ret |-> TRUE ]

\* the body shared by upgrade_damage, upgrade_attack_speed and upgrade_range:
\* the affordability check, the two spends, then `raised`, the tower with the
\* path's base stat and levels raised.  [ t, res, ret ] after the call
upgrade(t, res, cost, monster_coin_cost, raised) ==
    IF ~has_resources(res, cost)
         \/ get_resource(res, "Monster Coins") < monster_coin_cost
    THEN [ t |-> t, res |-> res, ret |-> FALSE ]
    ELSE LET spent == spend_resources(res, cost)
         IN  IF spent[2]
             THEN [ t |-> apply_item_effects(raised),
                    res |-> spend_resource(spent[1], "Monster Coins",
                                           monster_coin_cost)[1],
                    ret |-> TRUE ]
             ELSE [ t |-> t, res |-> res, ret |-> FALSE ]

\* upgrade_damage with the range level raised along with the damage level
upgrade_damage_raises_range_level(t, res) ==
    upgrade(t, res,
            calculate_damage_upgrade_cost(t),
            calculate_damage_upgrade_monster_coin_cost(t),
            [ t EXCEPT
                !.base_damage = MulX10(@, TOWER_DAMAGE_UPGRADE_MULTIPLIER_X10),
                !.damage_level = @ + 1,
                !.range_level = @ + 1,
                !.level = @ + 1 ])

upgrade_damage(t, res) ==
    upgrade(t, res,
            calculate_damage_upgrade_cost(t),
            calculate_damage_upgrade_monster_coin_cost(t),
            [ t EXCEPT
                !.base_damage = MulX10(@, TOWER_DAMAGE_UPGRADE_MULTIPLIER_X10),
                !.damage_level = @ + 1,
                !.level = @ + 1 ])

upgrade_attack_speed(t, res) ==
    upgrade(t, res,
            calculate_attack_speed_upgrade_cost(t),
            calculate_attack_speed_upgrade_monster_coin_cost(t),
            [ t EXCEPT
                !.base_attack_speed =
                    MulX10(@, TOWER_ATTACK_SPEED_UPGRADE_MULTIPLIER_X10),
                !.attack_speed_level = @ + 1,
                !.level = @ + 1 ])

upgrade_range(t, res) ==
    upgrade(t, res,
            calculate_range_upgrade_cost(t),
            calculate_range_upgrade_monster_coin_cost(t),
            [ t EXCEPT
                !.base_ref_range = MulX10(@, TOWER_RANGE_UPGRADE_MULTIPLIER_X10),
                !.base_range = scale_value(
                    MulX10(t.base_ref_range, TOWER_RANGE_UPGRADE_MULTIPLIER_X10)),
                !.range_level = @ + 1,
                !.level = @ + 1 ])

\* add_item(item, slot_index, resource_manager); slot_index counts from 0.
\* [ t, res, ret ] after the call
add_item(t, item, slot_index, res) ==
    IF 0 <= slot_index /\ slot_index < Len(t.item_slots)
    THEN LET current_item == t.item_slots[slot_index + 1]
             returned == IF current_item # None
                         THEN add_resource(res, current_item, 1)
                         ELSE res
             slotted == [ t EXCEPT !.item_slots[slot_index + 1] = item ]
             spent == IF item # None
                      THEN spend_resource(returned, item, 1)[1]
                      ELSE returned
         IN  [ t |-> apply_item_effects(slotted), res |-> spent, ret |-> TRUE ]
    ELSE [ t |-> t, res |-> res, ret |-> FALSE ]

\* remove_item(slot_index, resource_manager): ret is the removed item or None
remove_item(t, slot_index, res) ==
    IF 0 <= slot_index /\ slot_index < Len(t.item_slots)
         /\ t.item_slots[slot_index + 1] # None
    THEN LET removed_item == t.item_slots[slot_index + 1]
             emptied == [ t EXCEPT !.item_slots[slot_index + 1] = None ]
         IN  [ t |-> apply_item_effects(emptied),
               res |-> add_resource(res, removed_item, 1),
               ret |-> removed_item ]
    ELSE [ t |-> t, res |-> res, ret |-> None ]

(***************************************************************************)
(* Tower.update, find_targets and the attacks of the single-target towers. *)
(***************************************************************************)
\* utils.distance between two points of the line the monsters walk on
distance(p, q) == IF p >= q THEN p - q ELSE q - p

\* sorted(key = distance to the tower), a stable sort: ms with m inserted
\* behind every monster that is not farther away than m
RECURSIVE insert_by_distance(_, _, _)
insert_by_distance(t, ms, m) ==
    IF ms = << >> THEN << m >>
    ELSE IF distance(t.position, Head(ms).position)
              <= distance(t.position, m.position)
         THEN << Head(ms) >> \o insert_by_distance(t, Tail(ms), m)
         ELSE << m >> \o ms

RECURSIVE sort_by_distance(_, _)
sort_by_distance(t, ms) ==
    IF ms = << >> THEN << >>
    ELSE insert_by_distance(t, sort_by_distance(t, SubSeq(ms, 1, Len(ms) - 1)),
                            ms[Len(ms)])

\* the range test and the sort of find_targets on the monsters' positions:
\* the ids of the monsters within the tower's range, nearest first
within_range_by_distance(t, monsters) ==
    LET in_range == SelectSeq(monsters,
                       LAMBDA m : FP(distance(t.position, m.position)) <= t.range)
        sorted == sort_by_distance(t, in_range)
    IN  [ i \in DOMAIN sorted |-> sorted[i].id ]

\* find_targets without the test of monster.flying
find_targets_with_flying(t, monsters, by_distance) ==
    LET Of(id) == CHOOSE m \in { monsters[i] : i \in DOMAIN monsters } : m.id = id
        present == SelectSeq(by_distance, LAMBDA id : id \in Ids(monsters))
        found == [ i \in DOMAIN present |-> Of(present[i]) ]
    IN  SelectSeq(found, LAMBDA m : ~m.is_dead)

\* find_targets: by_distance lists the ids of the monsters within range,
\* nearest first; dead monsters are skipped, and flying ones unless the tower
\* is an Archer or a Sniper
find_targets(t, monsters, by_distance) ==
    LET Of(id) == CHOOSE m \in { monsters[i] : i \in DOMAIN monsters } : m.id = id
        present == SelectSeq(by_distance, LAMBDA id : id \in Ids(monsters))
        found == [ i \in DOMAIN present |-> Of(present[i]) ]
    IN  SelectSeq(found,
                  LAMBDA m : /\ ~m.is_dead
                             /\ ~(m.flying
                                  /\ t.tower_type \notin { "Archer", "Sniper" }))

\* the Game instances `[obj for obj in globals().values() if isinstance(obj,
\* Game)]` finds in the tower module's globals: the module holds none
TowerModuleGameInstances == { }

SetMonster(monsters, m) ==
    [ i \in DOMAIN monsters |-> IF monsters[i].id = m.id THEN m ELSE monsters[i] ]

RECURSIVE HandleKilled(_, _, _)
HandleKilled(wm, res, killed) ==
    IF killed = << >> THEN << wm, res >>
    ELSE LET h == handle_monster_death(wm, res, Head(killed))
         IN  HandleKilled(h[1], h[2], Tail(killed))

\* the calls an attack makes: take_damage(amount) on the monsters of `hits`,
\* in order, and handle_monster_death on the monsters of `handed`
NoCalls == [ hits |-> << >>, handed |-> << >> ]

\* the damage part with the splash loop run over every target but the
\* primary one, whatever its distance to the primary target
single_target_attack_splashes_all(t, wm, res, targets, target) ==
    LET hit == take_damage(target, t.damage)
        primary_target_killed == hit.health <= 0
        m1 == SetMonster(wm.active_monsters, hit)
        Splashed(m) == t.splash_damage_enabled /\ t.splash_damage_radius > 0
                       /\ m.id # target.id /\ ~m.is_dead
                       /\ \E i \in DOMAIN targets : targets[i].id = m.id
        m2 == [ i \in DOMAIN m1 |->
                  IF Splashed(m1[i]) THEN take_damage(m1[i], t.damage \div 2)
                  ELSE m1[i] ]
        splashed == SelectSeq(targets, Splashed)
        splash_targets ==
            SelectSeq(splashed,
                      LAMBDA m : take_damage(m, t.damage \div 2).health <= 0)
        killed_monsters ==
            (IF primary_target_killed THEN << hit >> ELSE << >>) \o splash_targets
        damaged == [ wm EXCEPT !.active_monsters = m2 ]
        hits == << [ id |-> target.id, amount |-> t.damage ] >>
                \o [ i \in DOMAIN splashed |->
                       [ id |-> splashed[i].id, amount |-> t.damage \div 2 ] ]
    IN  IF TowerModuleGameInstances = { }
        THEN << damaged, res, [ hits |-> hits, handed |-> << >> ] >>
        ELSE HandleKilled(damaged, res, killed_monsters)
             \o << [ hits |-> hits,
                     handed |-> [ i \in DOMAIN killed_monsters |->
                                    killed_monsters[i].id ] ] >>

\* the damage part of ArcherTower.attack / SniperTower.attack on the chosen
\* primary target: << scheduler, ledger, calls >> after the attack
single_target_attack(t, wm, res, targets, target) ==
    LET hit == take_damage(target, t.damage)
        primary_target_killed == hit.health <= 0
        m1 == SetMonster(wm.active_monsters, hit)
        Splashed(m) == t.splash_damage_enabled /\ t.splash_damage_radius > 0
                       /\ m.id # target.id /\ ~m.is_dead
                       /\ FP(distance(m.position, target.position))
                            <= t.splash_damage_radius
                       /\ \E i \in DOMAIN targets : targets[i].id = m.id
        m2 == [ i \in DOMAIN m1 |->
                  IF Splashed(m1[i]) THEN take_damage(m1[i], t.damage \div 2)
                  ELSE m1[i] ]
        splashed == SelectSeq(targets, Splashed)
        splash_targets ==
            SelectSeq(splashed,
                      LAMBDA m : take_damage(m, t.damage \div 2).health <= 0)
        killed_monsters ==
            (IF primary_target_killed THEN << hit >> ELSE << >>) \o splash_targets
        damaged == [ wm EXCEPT !.active_monsters = m2 ]
        hits == << [ id |-> target.id, amount |-> t.damage ] >>
                \o [ i \in DOMAIN splashed |->
                       [ id |-> splashed[i].id, amount |-> t.damage \div 2 ] ]
    IN  IF TowerModuleGameInstances = { }
        THEN << damaged, res, [ hits |-> hits, handed |-> << >> ] >>
        ELSE HandleKilled(damaged, res, killed_monsters)
             \o << [ hits |-> hits,
                     handed |-> [ i \in DOMAIN killed_monsters |->
                                    killed_monsters[i].id ] ] >>

\* ArcherTower.attack: the closest target
ArcherTower_attack(t, wm, res, targets) ==
    IF targets = << >> \/ targets[1].is_dead THEN << wm, res, NoCalls >>
    ELSE single_target_attack(t, wm, res, targets, targets[1])

\* SniperTower.attack with max() returning the last target of highest health
SniperTower_attack_last_max(t, wm, res, targets) ==
    IF targets = << >> THEN << wm, res, NoCalls >>
    ELSE LET best == CHOOSE i \in DOMAIN targets :
                       /\ \A j \in DOMAIN targets : targets[j].health <= targets[i].health
                       /\ \A j \in (i + 1)..Len(targets) :
                            targets[j].health < targets[i].health
         IN  IF targets[best].is_dead THEN << wm, res, NoCalls >>
             ELSE single_target_attack(t, wm, res, targets, targets[best])

\* SniperTower.attack: the first target of highest health, max(targets)
SniperTower_attack(t, wm, res, targets) ==
    IF targets = << >> THEN << wm, res, NoCalls >>
    ELSE LET best == CHOOSE i \in DOMAIN targets :
                       /\ \A j \in DOMAIN targets : targets[j].health <= targets[i].health
                       /\ \A j \in 1..(i - 1) : targets[j].health < targets[i].health
         IN  IF targets[best].is_dead THEN << wm, res, NoCalls >>
             ELSE single_target_attack(t, wm, res, targets, targets[best])

attack(t, wm, res, targets) ==
    IF t.tower_type = "Sniper"
    THEN SniperTower_attack(t, wm, res, targets)
    ELSE ArcherTower_attack(t, wm, res, targets)

\* the test of Tower.update: attack_timer >= 1.0 / attack_speed
timer_elapsed(t, timer) == timer * t.attack_speed >= TicksPerSecond * StatScale

\* Tower.update with the attack made as soon as a target exists, the timer
\* not tested
Tower_update_ignores_timer(t, wm, res, dt, by_distance) ==
    LET targets == find_targets(t, wm.active_monsters, by_distance)
        timer == IF timer_elapsed(t, t.attack_timer) THEN t.attack_timer
                 ELSE t.attack_timer + dt
        ids == [ i \in DOMAIN targets |-> targets[i].id ]
    IN  IF targets # << >>
        THEN LET a == attack(t, wm, res, targets)
             IN  [ t |-> [ t EXCEPT !.attack_timer = 0 ], wm |-> a[1],
                   res |-> a[2], targets |-> ids, fired |-> TRUE,
                   calls |-> a[3] ]
        ELSE [ t |-> [ t EXCEPT !.attack_timer = timer ], wm |-> wm,
               res |-> res, targets |-> ids, fired |-> FALSE,
               calls |-> NoCalls ]

\* Tower.update(dt, monsters): the tower, the scheduler and the ledger after
\* the call, with the target list it built, whether it called attack and
\* the calls the attack made.  The timer is only ever compared with the
\* attack period, so it stops growing once the period has elapsed
Tower_update(t, wm, res, dt, by_distance) ==
    LET targets == find_targets(t, wm.active_monsters, by_distance)
        timer == IF timer_elapsed(t, t.attack_timer) THEN t.attack_timer
                 ELSE t.attack_timer + dt
        ids == [ i \in DOMAIN targets |-> targets[i].id ]
    IN  IF timer_elapsed(t, timer) /\ targets # << >>
        THEN LET a == attack(t, wm, res, targets)
             IN  [ t |-> [ t EXCEPT !.attack_timer = 0 ], wm |-> a[1],
                   res |-> a[2], targets |-> ids, fired |-> TRUE,
                   calls |-> a[3] ]
        ELSE [ t |-> [ t EXCEPT !.attack_timer = timer ], wm |-> wm,
               res |-> res, targets |-> ids, fired |-> FALSE,
               calls |-> NoCalls ]

(***************************************************************************)
(* The game: Game, the states and the save manager.                        *)
(***************************************************************************)
NoCall == [ op |-> "none", args |-> << >>, val |-> None ]

\* GameStateManager.change_state(name) from the state `old`: exit() on the old
\* state, then enter() on the new one
change_state_calls(old, name) ==
    << [ fn |-> "exit", state |-> old ], [ fn |-> "enter", state |-> name ] >>

\* a step that does not call change_state
NoStateChange ==
    calls' = << >> /\ autosaved' = 0 /\ UNCHANGED << is_paused, paused >>

\* the scheduler's fields after a call
SetWaveManager(wm) ==
    /\ current_wave' = wm.current_wave
    /\ active_monsters' = wm.active_monsters
    /\ spawn_timer' = wm.spawn_timer
    /\ monsters_to_spawn' = wm.monsters_to_spawn
    /\ wave_active' = wm.wave_active
    /\ wave_completed' = wm.wave_completed

wave_vars == << current_wave, active_monsters, spawn_timer, monsters_to_spawn,
                wave_active, wave_completed >>
tower_vars == << towers, playing_towers, towers_rebound >>
game_over_vars == << time_in_state, go_current_wave, setback_wave >>

\* Game.__init__: the state after construction
Init ==
    /\ current_state = "main_menu"
    /\ current_wave = 0
    /\ active_monsters = << >>
    /\ spawn_timer = 0
    /\ monsters_to_spawn = 0
    /\ wave_active = FALSE
    /\ wave_completed = TRUE
    /\ continuous_wave = TRUE
    /\ castle_health = CastleMaxHealth
    /\ resources = INITIAL_RESOURCES
    /\ towers = << >>
    /\ playing_towers = << >>
    /\ towers_rebound = FALSE
    /\ placement_type = None
    /\ time_in_state = 0
    /\ go_current_wave = 0
    /\ setback_wave = 1
    /\ ret = NoCall
    /\ is_paused = FALSE
    /\ paused = FALSE
    /\ autosaved = 0
    /\ calls = << [ fn |-> "enter", state |-> "main_menu" ] >>

\* GameOverState.enter with the setback taken at every wave, not from wave 11
setback_for_unclamped(wave) == wave - SETBACK_WAVES

\* GameOverState.enter: the setback wave for the wave reached
setback_for(wave) ==
    IF wave >= SETBACK_THRESHOLD THEN Max(1, wave - SETBACK_WAVES) ELSE 1

\* the loop over self.towers in PlayingState.update; choice[i] is the id of
\* the monster nearest to tower i within its range, 0 when none is in range.
\* ok: the choice names living monsters only
RECURSIVE TowersUpdate(_, _, _, _, _, _)
TowersUpdate(ts, i, wm, res, dt, choice) ==
    IF i > Len(ts) THEN [ towers |-> ts, wm |-> wm, res |-> res, ok |-> TRUE ]
    ELSE LET by_distance == IF choice[i] = 0 THEN << >> ELSE << choice[i] >>
             legal == \/ choice[i] = 0
                      \/ /\ \E k \in DOMAIN wm.active_monsters :
                              /\ wm.active_monsters[k].id = choice[i]
                              /\ ~wm.active_monsters[k].is_dead
                         /\ timer_elapsed(ts[i], ts[i].attack_timer + dt)
             u == Tower_update(ts[i], wm, res, dt, by_distance)
         IN  IF legal
             THEN TowersUpdate([ ts EXCEPT ![i] = u.t ], i + 1, u.wm, u.res, dt, choice)
             ELSE [ towers |-> ts, wm |-> wm, res |-> res, ok |-> FALSE ]

\* the game over check with `<` for `<=`
castle_fallen_below_zero(health) == health < 0

\* the game over check of PlayingState.update: self.castle.health <= 0
castle_fallen(health) == health <= 0

\* the continuous wave step with `wave_active` for `not wave_active`
continuous_wave_step_tests_active(wm) ==
    IF continuous_wave /\ wm.wave_completed /\ wm.wave_active
    THEN start_next_wave(wm)
    ELSE wm

\* the end of PlayingState.update: in continuous wave mode a completed wave
\* with no wave active starts the next one
continuous_wave_step(wm) ==
    IF continuous_wave /\ wm.wave_completed /\ ~wm.wave_active
    THEN start_next_wave(wm)
    ELSE wm

\* the ceiling of the exploration of the ledger's growth
WithinLedgerBound(res) ==
    /\ res["Monster Coins"] > resources["Monster Coins"] =>
         res["Monster Coins"] <= INITIAL_RESOURCES["Monster Coins"]
                                 - TOWER_MONSTER_COIN_COSTS.Archer + MaxCoinGain
    /\ res["Force Core"] <= MaxCoinGain

\* SaveManager.check_autosave: whether save_game is called
check_autosave(wm) ==
    /\ wm.current_wave > 0
    /\ wm.current_wave % autosave_waves = 0
    /\ wm.wave_completed

\* PlayingState.update(dt)
PlayingUpdate(dt, regen, arrive, health, choice) ==
    /\ current_state = "playing"
    /\ monsters_to_spawn <= MaxQuota
    /\ regen > 0 => castle_health < CastleMaxHealth
    /\ LET healed == Castle_update(castle_health, regen)
           spawning == wave_active /\ monsters_to_spawn > 0
                       /\ spawn_timer + dt >= MONSTER_SPAWN_INTERVAL
           w == WaveManager_update(WaveManager, healed, resources, dt, arrive,
                                   health * FP(TOWER_TYPES.Archer.damage))
           tw == TowersUpdate(playing_towers, 1, w.wm, w.res, dt, choice)
           over == castle_fallen(w.castle)
           advanced == continuous_wave_step(tw.wm)
       IN  /\ health > 1 => spawning
           /\ arrive # { } => wave_active
           /\ \A id \in arrive :
                \E m \in { spawn_step(WaveManager, dt, 0).active_monsters[k] :
                            k \in DOMAIN spawn_step(WaveManager, dt, 0).active_monsters } :
                    m.id = id /\ ~m.is_dead
           /\ tw.ok
           /\ Len(advanced.active_monsters) <= MaxActive
           /\ advanced.current_wave <= MaxWave
           /\ WithinLedgerBound(tw.res)
           /\ SetWaveManager(advanced)
           /\ castle_health' = w.castle
           /\ resources' = tw.res
           /\ playing_towers' = tw.towers
           /\ towers' = IF towers_rebound THEN towers ELSE tw.towers
           /\ autosaved' = IF check_autosave(tw.wm)
                           THEN Min(autosaved + 1, MaxSaves)
                           ELSE 0
           /\ IF over
              THEN /\ current_state' = "game_over"
                   /\ calls' = change_state_calls("playing", "game_over")
                   /\ time_in_state' = 0
                   /\ go_current_wave' = tw.wm.current_wave
                   /\ setback_wave' = setback_for(tw.wm.current_wave)
              ELSE /\ calls' = << >>
                   /\ UNCHANGED << current_state, game_over_vars >>
    /\ UNCHANGED << continuous_wave, towers_rebound, placement_type, ret,
                    is_paused, paused >>

\* MainMenuState: starting the game changes the state to playing
StartGame ==
    /\ current_state = "main_menu"
    /\ current_state' = "playing"
    /\ calls' = change_state_calls("main_menu", "playing")
    /\ autosaved' = 0
    /\ UNCHANGED << is_paused, paused >>
    /\ UNCHANGED << wave_vars, continuous_wave, castle_health, resources,
                    tower_vars, placement_type, game_over_vars, ret >>

\* PlayingState.handle_events, K_SPACE: start_next_wave()
PlayingStartNextWave ==
    /\ current_state = "playing"
    /\ current_wave < MaxWave
    /\ SetWaveManager(start_next_wave(WaveManager))
    /\ NoStateChange
    /\ UNCHANGED << current_state, continuous_wave, castle_health, resources,
                    tower_vars, placement_type, game_over_vars, ret >>

\* Game.enter_tower_placement_mode(tower_type): change_state, which runs
\* TowerPlacementState.enter, then set_tower_type
EnterTowerPlacement(ty) ==
    /\ current_state = "playing"
    /\ Len(towers) < MaxTowers
    /\ current_state' = "tower_placement"
    /\ calls' = change_state_calls("playing", "tower_placement")
    /\ autosaved' = 0
    /\ placement_type' = ty
    /\ UNCHANGED << is_paused, paused >>
    /\ UNCHANGED << wave_vars, continuous_wave, castle_health, resources,
                    tower_vars, game_over_vars, ret >>

\* the positions of the buildings Game.__init__ creates
BuildingPositions == { 1 }

\* colliderect of two rects of a tower's size centred on p and q: they share
\* an area when the centres are less than one width apart
Collides(p, q) == distance(p, q) < TOWER_SIZE

\* is_valid_tower_position without the loop over self.towers
is_valid_tower_position_ignores_towers(position) ==
    /\ position # 0
    /\ \A b \in BuildingPositions : ~Collides(position, b)

\* Game.is_valid_tower_position: inside the castle boundary (position 0 lies
\* outside it), clear of every building and every tower of Game.towers
is_valid_tower_position(position) ==
    /\ position # 0
    /\ \A b \in BuildingPositions : ~Collides(position, b)
    /\ \A i \in DOMAIN towers : ~Collides(position, towers[i].position)

\* the left click with the spend made before the position is checked
PlaceTower_spends_before_position_check(position) ==
    /\ current_state = "tower_placement"
    /\ autosaved' = 0
    /\ LET cost == TOWER_TYPES[placement_type].cost
           spent == spend_resources_for_tower(
                        resources, cost, TOWER_MONSTER_COIN_COSTS[placement_type])
           placed == placement_type # None
                     /\ spent[2]
                     /\ is_valid_tower_position(position)
       IN  /\ resources' = spent[1]
           /\ IF placed
              THEN /\ towers' = Append(towers, Tower(position, placement_type))
                   /\ playing_towers' =
                        IF towers_rebound THEN playing_towers
                        ELSE Append(towers, Tower(position, placement_type))
                   /\ current_state' = "playing"
                   /\ calls' = change_state_calls("tower_placement", "playing")
                   /\ placement_type' = None
              ELSE /\ calls' = << >>
                   /\ UNCHANGED << towers, playing_towers, current_state,
                                   placement_type >>
    /\ UNCHANGED << wave_vars, continuous_wave, castle_health, towers_rebound,
                    game_over_vars, ret, is_paused, paused >>

\* TowerPlacementState.handle_events, left click: place_tower(mouse_pos) and,
\* when it succeeds, change_state("playing"), which runs exit
PlaceTower(position) ==
    /\ current_state = "tower_placement"
    /\ autosaved' = 0
    /\ LET cost == TOWER_TYPES[placement_type].cost
           spent == spend_resources_for_tower(
                        resources, cost, TOWER_MONSTER_COIN_COSTS[placement_type])
           placed == placement_type # None
                     /\ is_valid_tower_position(position)
                     /\ spent[2]
       IN  IF placed
           THEN /\ resources' = spent[1]
                /\ towers' = Append(towers, Tower(position, placement_type))
                /\ playing_towers' =
                     IF towers_rebound THEN playing_towers
                     ELSE Append(towers, Tower(position, placement_type))
                /\ current_state' = "playing"
                /\ calls' = change_state_calls("tower_placement", "playing")
                /\ placement_type' = None
           ELSE /\ calls' = << >>
                /\ UNCHANGED << resources, towers, playing_towers,
                                current_state, placement_type >>
    /\ UNCHANGED << wave_vars, continuous_wave, castle_health, towers_rebound,
                    game_over_vars, ret, is_paused, paused >>

\* the cancel with an exit() that keeps the pending tower type
CancelPlacement_keeps_tower_type ==
    /\ current_state = "tower_placement"
    /\ current_state' = "playing"
    /\ calls' = change_state_calls("tower_placement", "playing")
    /\ autosaved' = 0
    /\ UNCHANGED << wave_vars, continuous_wave, castle_health, resources,
                    tower_vars, placement_type, game_over_vars, ret, is_paused,
                    paused >>

\* TowerPlacementState.handle_events, right click or Escape
CancelPlacement ==
    /\ current_state = "tower_placement"
    /\ current_state' = "playing"
    /\ calls' = change_state_calls("tower_placement", "playing")
    /\ autosaved' = 0
    /\ placement_type' = None
    /\ UNCHANGED << is_paused, paused >>
    /\ UNCHANGED << wave_vars, continuous_wave, castle_health, resources,
                    tower_vars, game_over_vars, ret >>

\* continue_game without line 87, `monsters_to_spawn = 0`
continue_game_keeps_quota ==
    /\ castle_health' = CastleMaxHealth
    /\ current_wave' = setback_wave - 1
    /\ active_monsters' = << >>
    /\ wave_active' = FALSE
    /\ wave_completed' = TRUE
    /\ current_state' = "playing"
    /\ calls' = change_state_calls("game_over", "playing")
    /\ autosaved' = 0
    /\ UNCHANGED << is_paused, paused >>
    /\ UNCHANGED << spawn_timer, monsters_to_spawn, continuous_wave, resources,
                    tower_vars, placement_type, go_current_wave, setback_wave,
                    ret >>

\* GameOverState.continue_game
continue_game ==
    /\ castle_health' = CastleMaxHealth
    /\ current_wave' = setback_wave - 1
    /\ active_monsters' = << >>
    /\ wave_active' = FALSE
    /\ wave_completed' = TRUE
    /\ monsters_to_spawn' = 0
    /\ current_state' = "playing"
    /\ calls' = change_state_calls("game_over", "playing")
    /\ autosaved' = 0
    /\ UNCHANGED << is_paused, paused >>
    /\ UNCHANGED << spawn_timer, continuous_wave, resources, tower_vars,
                    placement_type, go_current_wave, setback_wave, ret >>

\* GameOverState.handle_events, K_RETURN or K_SPACE
GameOverConfirm ==
    /\ current_state = "game_over"
    /\ continue_game
    /\ UNCHANGED time_in_state

\* the time steps explored on the game over screen, in ticks
GameOverDts == { AUTO_CONTINUE_TIME \div 2, AUTO_CONTINUE_TIME }

\* the update with `>` for `>=` in the test of the countdown
GameOverUpdate_continues_after_limit(dt) ==
    /\ current_state = "game_over"
    /\ time_in_state' = time_in_state + dt
    /\ IF time_in_state + dt > AUTO_CONTINUE_TIME
       THEN continue_game
       ELSE NoStateChange /\ UNCHANGED << wave_vars, continuous_wave,
                         castle_health, resources,
                         tower_vars, placement_type, current_state,
                         go_current_wave, setback_wave, ret >>

\* GameOverState.update(dt)
GameOverUpdate(dt) ==
    /\ current_state = "game_over"
    /\ time_in_state' = time_in_state + dt
    /\ IF time_in_state + dt >= AUTO_CONTINUE_TIME
       THEN continue_game
       ELSE NoStateChange /\ UNCHANGED << wave_vars, continuous_wave, castle_health, resources,
                         tower_vars, placement_type, current_state,
                         go_current_wave, setback_wave, ret >>

\* Game.set_wave(wave_number), the developer menu's wave control
SetWave(wave_number) ==
    /\ current_state = "playing"
    /\ current_wave' = wave_number
    /\ active_monsters' = << >>
    /\ wave_active' = FALSE
    /\ wave_completed' = TRUE
    /\ monsters_to_spawn' = 0
    /\ NoStateChange
    /\ UNCHANGED << spawn_timer, current_state, continuous_wave, castle_health,
                    resources, tower_vars, placement_type, game_over_vars, ret >>

\* the developer menu's switch of the continuous wave mode
SetContinuousWave(on) ==
    /\ current_state = "playing"
    /\ continuous_wave # on
    /\ continuous_wave' = on
    /\ NoStateChange
    /\ UNCHANGED << current_state, wave_vars, castle_health, resources,
                    tower_vars, placement_type, game_over_vars, ret >>

\* the save files load_game can read: game states written by earlier save_game
\* calls
SavedGames ==
    { [ wave |-> w, resources |-> INITIAL_RESOURCES,
        castle_health |-> CastleMaxHealth, towers |-> << >> ] : w \in { 0, 10 } }

\* SaveManager.load_game(filename) of an existing, well-formed save
LoadGame(game_state) ==
    /\ current_state \in { "main_menu", "playing" }
    /\ current_wave' = game_state.wave
    /\ active_monsters' = << >>
    /\ wave_active' = FALSE
    /\ wave_completed' = TRUE
    /\ resources' = game_state.resources
    /\ castle_health' = game_state.castle_health
    /\ towers' = game_state.towers
    /\ towers_rebound' = TRUE
    /\ NoStateChange
    /\ UNCHANGED << spawn_timer, monsters_to_spawn, current_state,
                    continuous_wave, playing_towers, placement_type,
                    game_over_vars, ret >>

(***************************************************************************)
(* The event handlers of PlayingState and PausedState and the play/pause    *)
(* button.  A handler runs on g, the part of the game it reads and writes:  *)
(* the active state, the scheduler, the pending tower type, the button's    *)
(* flag, the Playing state's flag and the exit and enter calls made so far. *)
(***************************************************************************)
MaxEvents == 2         \* events delivered to a handler in one frame

Handled ==
    [ state |-> current_state, wm |-> WaveManager,
      tower_type |-> placement_type, is_paused |-> is_paused,
      paused |-> paused, calls |-> << >> ]

\* PausedState.exit without the reset of the button's flag (line 50)
exit_keeps_button(g, name) ==
    IF name = "paused" THEN [ g EXCEPT !.paused = FALSE ]
    ELSE IF name = "tower_placement" THEN [ g EXCEPT !.tower_type = None ]
    ELSE g

\* the exit() of the states: PausedState resets the button and the Playing
\* state's flag, TowerPlacementState drops the pending tower type
exit(g, name) ==
    IF name = "paused"
    THEN [ g EXCEPT !.is_paused = FALSE, !.paused = FALSE ]
    ELSE IF name = "tower_placement" THEN [ g EXCEPT !.tower_type = None ]
    ELSE g

\* the enter() of the states a handler changes to: PausedState sets the
\* button and the Playing state's flag, TowerPlacementState starts with no
\* tower type
enter(g, name) ==
    IF name = "paused"
    THEN [ g EXCEPT !.is_paused = TRUE, !.paused = TRUE ]
    ELSE IF name = "tower_placement" THEN [ g EXCEPT !.tower_type = None ]
    ELSE g

\* GameStateManager.change_state(name)
change_state(g, name) ==
    [ enter(exit(g, g.state), name) EXCEPT
        !.state = name,
        !.calls = g.calls \o change_state_calls(g.state, name) ]

\* GameUI.toggle_pause, the callback of the play/pause button
toggle_pause(g) ==
    IF g.is_paused
    THEN change_state([ g EXCEPT !.is_paused = FALSE ], "playing")
    ELSE change_state([ g EXCEPT !.is_paused = TRUE ], "paused")

\* Game.enter_tower_placement_mode(tower_type)
enter_tower_placement_mode(g, tower_type) ==
    [ change_state(g, "tower_placement") EXCEPT !.tower_type = tower_type ]

K_SPACE == [ type |-> "KEYDOWN", key |-> "K_SPACE" ]
K_ESCAPE == [ type |-> "KEYDOWN", key |-> "K_ESCAPE" ]
\* a left click on the play/pause button or on the button of a tower type
Click(button) == [ type |-> "MOUSEBUTTONDOWN", on |-> button ]

OnPauseButton(event) ==
    event.type = "MOUSEBUTTONDOWN" /\ event.on = "play_pause_button"

\* the events explored in the Playing state
PlayingEvents ==
    { K_SPACE, K_ESCAPE, Click("play_pause_button"), Click("Archer"),
      Click("Sniper") }

EventLists(events) ==
    UNION { [ 1..n -> events ] : n \in 1..MaxEvents }

\* the second loop of PlayingState.handle_events: Space starts the next wave,
\* Escape pauses and ends the handler, a click on a tower button enters the
\* placement mode and the loop goes on
RECURSIVE PlayingState_second_loop(_, _)
PlayingState_second_loop(g, events) ==
    IF events = << >> THEN g
    ELSE LET event == Head(events)
         IN  IF event.type = "KEYDOWN"
             THEN IF event.key = "K_SPACE"
                  THEN PlayingState_second_loop(
                           [ g EXCEPT !.wm = start_next_wave(g.wm) ], Tail(events))
                  ELSE IF event.key = "K_ESCAPE"
                  THEN [ change_state(g, "paused") EXCEPT !.is_paused = TRUE ]
                  ELSE PlayingState_second_loop(g, Tail(events))
             ELSE IF event.on \in TowerTypes
             THEN PlayingState_second_loop(
                      enter_tower_placement_mode(g, event.on), Tail(events))
             ELSE PlayingState_second_loop(g, Tail(events))

\* PlayingState.handle_events(events): the game UI sees every event first, and
\* a click on the play/pause button ends the handler
PlayingState_handle_events(g, events) ==
    IF \E i \in DOMAIN events : OnPauseButton(events[i])
    THEN toggle_pause(g)
    ELSE PlayingState_second_loop(g, events)

\* the game after a handler has run on g
SetHandled(g) ==
    /\ current_state' = g.state
    /\ SetWaveManager(g.wm)
    /\ placement_type' = g.tower_type
    /\ is_paused' = g.is_paused
    /\ paused' = g.paused
    /\ calls' = g.calls
    /\ autosaved' = 0
    /\ UNCHANGED << continuous_wave, castle_health, resources, tower_vars,
                    game_over_vars, ret >>

\* one frame's events handled in the Playing state
PlayingHandleEvents(events) ==
    /\ current_state = "playing"
    /\ (\E i \in DOMAIN events : events[i] = K_SPACE) => current_wave < MaxWave
    /\ (\E i \in DOMAIN events : events[i].type = "MOUSEBUTTONDOWN"
                                   /\ events[i].on \in TowerTypes)
         => Len(towers) < MaxTowers
    /\ SetHandled(PlayingState_handle_events(Handled, events))

\* PausedState.handle_events, a click on the play/pause button
PausedTogglePause ==
    /\ current_state = "paused"
    /\ SetHandled(toggle_pause(Handled))

\* PausedState.resume_game: Escape, or the Resume Game option
ResumeGame ==
    /\ current_state = "paused"
    /\ SetHandled(change_state(Handled, "playing"))

\* a paused update that lets the scheduler's spawn timer run
PausedUpdate_runs_spawn_timer(dt) ==
    /\ current_state = "paused"
    /\ dt \in 1..MaxDt
    /\ calls' = << >>
    /\ autosaved' = 0
    /\ spawn_timer' = IF wave_active
                      THEN Min(spawn_timer + dt, MONSTER_SPAWN_INTERVAL)
                      ELSE spawn_timer
    /\ UNCHANGED << current_state, current_wave, active_monsters,
                    monsters_to_spawn, wave_active, wave_completed,
                    continuous_wave, castle_health, resources, tower_vars,
                    placement_type, game_over_vars, ret, is_paused,
                    paused >>

\* Game.update(dt) in the Paused state: the buildings are updated as paused,
\* then PausedState.update updates the button's hover state
PausedUpdate(dt) ==
    /\ current_state = "paused"
    /\ dt \in 1..MaxDt
    /\ calls' = << >>
    /\ autosaved' = 0
    /\ UNCHANGED << current_state, wave_vars, continuous_wave, castle_health,
                    resources, tower_vars, placement_type, game_over_vars, ret,
                    is_paused, paused >>

\* a tower placement update that lets the scheduler's spawn timer run
TowerPlacementUpdate_runs_spawn_timer(dt) ==
    /\ current_state = "tower_placement"
    /\ dt \in 1..MaxDt
    /\ calls' = << >>
    /\ autosaved' = 0
    /\ spawn_timer' = IF wave_active
                      THEN Min(spawn_timer + dt, MONSTER_SPAWN_INTERVAL)
                      ELSE spawn_timer
    /\ UNCHANGED << current_state, current_wave, active_monsters,
                    monsters_to_spawn, wave_active, wave_completed,
                    continuous_wave, castle_health, resources, tower_vars,
                    placement_type, game_over_vars, ret, is_paused,
                    paused >>

\* Game.update(dt) in the TowerPlacement state: the buildings are not
\* updated, and TowerPlacementState.update does nothing
TowerPlacementUpdate(dt) ==
    /\ current_state = "tower_placement"
    /\ dt \in 1..MaxDt
    /\ calls' = << >>
    /\ autosaved' = 0
    /\ UNCHANGED << current_state, wave_vars, continuous_wave, castle_health,
                    resources, tower_vars, placement_type, game_over_vars, ret,
                    is_paused, paused >>

(***************************************************************************)
(* TowerFactory (features/towers/factory.py) and the tower part of the     *)
(* save manager (save_system.py).                                          *)
(***************************************************************************)
\* tower.__class__.__name__: ArcherTower, SniperTower, SplashTower, FrozenTower
ClassName(t) == t.tower_type \o "Tower"

\* TowerFactory.create_tower(tower_type, position): the tower of a known type;
\* any other type raises ValueError
create_tower(tower_type, position) ==
    IF tower_type \in TowerTypes
    THEN [ raised |-> FALSE, tower |-> Tower(position, tower_type) ]
    ELSE [ raised |-> TRUE, tower |-> Tower(position, "Archer") ]

\* SaveManager.serialize_tower(tower): the dictionary written to the save;
\* the keys a variant does not write are left out
serialize_tower(t) ==
    LET common == [ type |-> ClassName(t), position |-> t.position,
                    level |-> t.level, damage |-> t.damage,
                    attack_speed |-> t.attack_speed, range |-> t.range,
                    item_slots |-> t.item_slots ]
    IN  IF ClassName(t) = "SplashTower"
        THEN [ type |-> common.type, position |-> common.position,
               level |-> common.level, damage |-> common.damage,
               attack_speed |-> common.attack_speed, range |-> common.range,
               item_slots |-> common.item_slots,
               aoe_radius |-> t.aoe_radius ]
        ELSE IF ClassName(t) = "FrozenTower"
        THEN [ type |-> common.type, position |-> common.position,
               level |-> common.level, damage |-> common.damage,
               attack_speed |-> common.attack_speed, range |-> common.range,
               item_slots |-> common.item_slots,
               slow_effect |-> t.slow_effect,
               slow_duration |-> t.slow_duration ]
        ELSE common

\* SaveManager.deserialize_tower(tower_data): the factory's tower with the
\* saved properties set, or a new Archer when the factory raises ValueError
deserialize_tower(tower_data) ==
    LET tower_type == tower_data.type
        position == tower_data.position
        made == create_tower(tower_type, position)
        common == [ made.tower EXCEPT
                      !.level = tower_data.level,
                      !.damage = tower_data.damage,
                      !.attack_speed = tower_data.attack_speed,
                      !.range = tower_data.range,
                      !.item_slots = tower_data.item_slots ]
    IN  IF made.raised
        THEN create_tower("Archer", position).tower
        ELSE IF tower_type = "SplashTower"
        THEN [ common EXCEPT !.aoe_radius = tower_data.aoe_radius ]
        ELSE IF tower_type = "FrozenTower"
        THEN [ common EXCEPT !.slow_effect = tower_data.slow_effect,
                             !.slow_duration = tower_data.slow_duration ]
        ELSE common

\* one Playing tick with its inputs: the time step, the castle's regeneration,
\* the monsters that reach the castle in it, the health a spawned monster
\* starts with and, for each tower, the nearest living monster within its range
PlayingTick ==
    \E dt \in 1..MaxDt, regen \in 0..1, health \in 1..MaxMonsterHealth,
       arrive \in SUBSET (Ids(active_monsters) \cup { FreshId(active_monsters) }),
       choice \in [ 1..Len(playing_towers) ->
                      { 0 } \cup Ids(active_monsters)
                            \cup { FreshId(active_monsters) } ] :
       PlayingUpdate(dt, regen, arrive, health, choice)

\* the wave scheduler under the game's flow: waves, recovery, the developer
\* menu's wave control and loading, with no tower placed
Next ==
    \/ StartGame
    \/ PlayingStartNextWave
    \/ PlayingTick
    \/ GameOverConfirm
    \/ \E dt \in GameOverDts : GameOverUpdate(dt)
    \/ \E w \in { 0, 9, 19 } : SetWave(w)
    \/ \E g \in SavedGames : LoadGame(g)
    \/ \E on \in BOOLEAN : SetContinuousWave(on)

Spec == Init /\ [][Next]_vars

\* the game loop calls the current state's update on every frame: on the game
\* over screen the updates keep arriving
SpecLive ==
    Spec /\ WF_vars(\E dt \in GameOverDts : GameOverUpdate(dt))

\* the battle: towers are placed and attack the monsters of the waves
NextBattle ==
    \/ StartGame
    \/ PlayingStartNextWave
    \/ PlayingTick
    \/ \E ty \in { "Archer", "Sniper" } : EnterTowerPlacement(ty)
    \/ \E position \in 0..MaxPos : PlaceTower(position)
    \/ CancelPlacement
    \/ GameOverConfirm
    \/ \E dt \in GameOverDts : GameOverUpdate(dt)
    \/ \E events \in EventLists(PlayingEvents) : PlayingHandleEvents(events)
    \/ PausedTogglePause
    \/ ResumeGame
    \/ \E dt \in 1..MaxDt : PausedUpdate(dt)
    \/ \E dt \in 1..MaxDt : TowerPlacementUpdate(dt)

SpecBattle == Init /\ [][NextBattle]_vars

(***************************************************************************)
(* The death handler on its own: handle_monster_death called on a          *)
(* scheduler in the middle of a wave, any number of times, with no update  *)
(* in between.                                                             *)
(***************************************************************************)
\* monsters of a running wave: bosses on a boss wave, regular monsters
\* otherwise, each alive or already killed by a tower
WaveMonsters(w) ==
    LET kind == IF IsBossWave(w)
                THEN get_boss_type([ WaveManagerInit EXCEPT !.current_wave = w ])
                ELSE Regular
        hp == FP(TOWER_TYPES.Archer.damage)
        One(id, dead) == IF dead THEN take_damage(Monster(id, kind, hp), hp)
                         ELSE Monster(id, kind, hp)
        limit == IF IsBossWave(w) THEN 1 ELSE MaxActive
    IN  { << >> }
        \cup { << One(1, d) >> : d \in BOOLEAN }
        \cup { << One(1, d[1]), One(2, d[2]) >> :
               d \in { e \in [ 1..2 -> BOOLEAN ] : limit >= 2 } }

InitDeath ==
    /\ current_state = "playing"
    /\ current_wave \in { 1, BOSS_WAVE_PERIOD, 2 * BOSS_WAVE_PERIOD }
    /\ active_monsters \in WaveMonsters(current_wave)
    /\ spawn_timer = 0
    /\ monsters_to_spawn = 0
    /\ wave_active = TRUE
    /\ wave_completed = FALSE
    /\ continuous_wave = TRUE
    /\ castle_health = CastleMaxHealth
    /\ resources = INITIAL_RESOURCES
    /\ towers = << >>
    /\ playing_towers = << >>
    /\ towers_rebound = FALSE
    /\ placement_type = None
    /\ time_in_state = 0
    /\ go_current_wave = 0
    /\ setback_wave = 1
    /\ ret = NoCall
    /\ is_paused = FALSE
    /\ paused = FALSE
    /\ autosaved = 0
    /\ calls = << >>

\* the monster objects a caller can hold: the active ones and one that is
\* not in active_monsters
KnownMonsters ==
    { active_monsters[k] : k \in DOMAIN active_monsters }
    \cup { Monster(MaxActive + 1, Regular, FP(TOWER_TYPES.Archer.damage)) }

\* wave_manager.handle_monster_death(m, resource_manager)
HandleMonsterDeath(m) ==
    /\ resources["Monster Coins"]
         < INITIAL_RESOURCES["Monster Coins"] + MaxCalls * KILL_COINS
    /\ LET h == handle_monster_death(WaveManager, resources, m)
       IN  /\ SetWaveManager(h[1])
           /\ resources' = h[2]
    /\ ret' = [ op |-> "handle_monster_death", args |-> << m.id >>, val |-> None ]
    /\ NoStateChange
    /\ UNCHANGED << current_state, continuous_wave, castle_health, tower_vars,
                    placement_type, game_over_vars >>

\* WaveManager.update(dt, castle) with the quota spent: the monsters of
\* `arrive` reach the castle, and the cleanup pass removes them and the dead
DeathUpdate(dt, arrive) ==
    /\ wave_active
    /\ LET w == WaveManager_update(WaveManager, castle_health, resources, dt,
                                   arrive, FP(TOWER_TYPES.Archer.damage))
       IN  /\ SetWaveManager(w.wm)
           /\ resources' = w.res
           /\ castle_health' = w.castle
    /\ ret' = [ op |-> "update", args |-> << dt >>, val |-> None ]
    /\ NoStateChange
    /\ UNCHANGED << current_state, continuous_wave, tower_vars, placement_type,
                    game_over_vars >>

NextDeath ==
    \/ \E m \in KnownMonsters : HandleMonsterDeath(m)
    \/ \E dt \in 1..MaxDt, arrive \in SUBSET Ids(active_monsters) :
         DeathUpdate(dt, arrive)

SpecDeath == InitDeath /\ [][NextDeath]_vars

(***************************************************************************)
(* start_next_wave on its own: called on a scheduler that is idle or in    *)
(* the middle of a wave.                                                   *)
(***************************************************************************)
InitStart ==
    /\ current_state = "playing"
    /\ current_wave \in { 1, BOSS_WAVE_PERIOD - 1, BOSS_WAVE_PERIOD }
    /\ wave_active \in BOOLEAN
    /\ wave_completed = ~wave_active
    /\ active_monsters \in IF wave_active THEN WaveMonsters(current_wave)
                           ELSE { << >> }
    /\ spawn_timer \in 0..(MONSTER_SPAWN_INTERVAL - 1)
    /\ monsters_to_spawn \in IF ~wave_active THEN { 0 }
                             ELSE IF IsBossWave(current_wave)
                             THEN 0..(1 - Len(active_monsters))
                             ELSE 0..MaxActive
    /\ continuous_wave = TRUE
    /\ castle_health = CastleMaxHealth
    /\ resources = INITIAL_RESOURCES
    /\ towers = << >>
    /\ playing_towers = << >>
    /\ towers_rebound = FALSE
    /\ placement_type = None
    /\ time_in_state = 0
    /\ go_current_wave = 0
    /\ setback_wave = 1
    /\ ret = NoCall
    /\ is_paused = FALSE
    /\ paused = FALSE
    /\ autosaved = 0
    /\ calls = << >>

\* wave_manager.start_next_wave(), with the value it returns
StartNextWaveCall ==
    /\ current_wave < MaxWave
    /\ SetWaveManager(start_next_wave(WaveManager))
    /\ ret' = [ op |-> "start_next_wave", args |-> << >>, val |-> ~wave_active ]
    /\ NoStateChange
    /\ UNCHANGED << current_state, continuous_wave, castle_health, resources,
                    tower_vars, placement_type, game_over_vars >>

NextStart == StartNextWaveCall

SpecStart == InitStart /\ [][NextStart]_vars

(***************************************************************************)
(* One tower under its menu: the upgrade paths and the item slots, against *)
(* the ledger.                                                             *)
(***************************************************************************)
\* the ledgers explored: the starting ledger, and a ledger after mining and
\* crafting that affords every upgrade explored and holds items
RichLedger ==
    [ k \in ResourceKinds |->
        CASE k = "Stone" -> 400
          [] k = "Iron" -> 100
          [] k = "Copper" -> 50
          [] k = "Monster Coins" -> 500
          [] k = "Unstoppable Force" -> 2
          [] k = "Serene Spirit" -> 1
          [] OTHER -> 0 ]

TowerLedgers == { INITIAL_RESOURCES, RichLedger }

InitTower ==
    /\ current_state = "playing"
    /\ current_wave = 0
    /\ active_monsters = << >>
    /\ spawn_timer = 0
    /\ monsters_to_spawn = 0
    /\ wave_active = FALSE
    /\ wave_completed = TRUE
    /\ continuous_wave = TRUE
    /\ castle_health = CastleMaxHealth
    /\ resources \in TowerLedgers
    /\ \E ty \in TowerTypes : towers = << Tower(MaxPos, ty) >>
    /\ playing_towers = towers
    /\ towers_rebound = FALSE
    /\ placement_type = None
    /\ time_in_state = 0
    /\ go_current_wave = 0
    /\ setback_wave = 1
    /\ ret = NoCall
    /\ is_paused = FALSE
    /\ paused = FALSE
    /\ autosaved = 0
    /\ calls = << >>

\* a call of the tower menu on the selected tower: r is [ t, res, ret ]
TowerCall(op, args, r) ==
    /\ towers' = << r.t >>
    /\ playing_towers' = << r.t >>
    /\ resources' = r.res
    /\ ret' = [ op |-> op, args |-> args, val |-> r.ret ]
    /\ NoStateChange
    /\ UNCHANGED << current_state, wave_vars, continuous_wave, castle_health,
                    towers_rebound, placement_type, game_over_vars >>

\* TowerMenu.upgrade_damage
UpgradeDamage ==
    /\ towers[1].damage_level < MaxLevel
    /\ TowerCall("upgrade_damage", << >>, upgrade_damage(towers[1], resources))

\* TowerMenu.upgrade_attack_speed
UpgradeAttackSpeed ==
    /\ towers[1].attack_speed_level < MaxLevel
    /\ TowerCall("upgrade_attack_speed", << >>,
                 upgrade_attack_speed(towers[1], resources))

\* TowerMenu.upgrade_range
UpgradeRange ==
    /\ towers[1].range_level < MaxLevel
    /\ TowerCall("upgrade_range", << >>, upgrade_range(towers[1], resources))

\* tower.add_item(item, slot_index, resource_manager)
AddItem(item, slot_index) ==
    /\ item \in Items
    /\ TowerCall("add_item", << item, slot_index >>,
              add_item(towers[1], item, slot_index, resources))

\* tower.remove_item(slot_index, resource_manager)
RemoveItem(slot_index) ==
    /\ slot_index \in 0..ITEM_SLOTS
    /\ TowerCall("remove_item", << slot_index >>,
              remove_item(towers[1], slot_index, resources))

\* the selected tower written by save_game and read back by load_game:
\* serialize_tower, then deserialize_tower of the dictionary.  The tower read
\* back is returned; the game's towers are left as they are
SaveAndReloadTower ==
    /\ ret' = [ op |-> "reload_tower", args |-> << >>,
                val |-> deserialize_tower(serialize_tower(towers[1])) ]
    /\ NoStateChange
    /\ UNCHANGED << current_state, wave_vars, continuous_wave, castle_health,
                    resources, tower_vars, placement_type, game_over_vars >>

NextTower ==
    \/ UpgradeDamage
    \/ UpgradeAttackSpeed
    \/ UpgradeRange
    \/ \E item \in Items, slot_index \in 0..ITEM_SLOTS : AddItem(item, slot_index)
    \/ \E slot_index \in 0..ITEM_SLOTS : RemoveItem(slot_index)
    \/ SaveAndReloadTower

SpecTower == InitTower /\ [][NextTower]_vars

(***************************************************************************)
(* Properties of death handling.                                           *)
(***************************************************************************)
\* C1: handle_monster_death called a second time on the same monster, with
\* nothing in between, credits nothing more: the two calls together credit
\* the kill reward exactly once
C1_DeathHandlingIdempotent ==
    [][ ret.op = "handle_monster_death" /\ ret' = ret
        => resources' = resources ]_vars

\* C2: over any run of Playing ticks, every monster that a tower killed is
\* credited exactly once: when monsters killed by towers leave active_monsters,
\* the ledger gains one kill reward for each of them in that step
C2_TowerKillsCreditedOnce ==
    [][ LET killed == { k \in DOMAIN active_monsters :
                          /\ active_monsters[k].is_dead
                          /\ ~active_monsters[k].reached_castle
                          /\ active_monsters[k].id \notin Ids(active_monsters') }
        IN  killed # { }
            => resources'["Monster Coins"]
                 = resources["Monster Coins"] + KILL_COINS * Cardinality(killed)
       ]_vars

(***************************************************************************)
(* Properties of the wave scheduler.                                       *)
(***************************************************************************)
\* C3: in every reachable state of the wave scheduler (after any sequence of
\* start_next_wave, update, game-over recovery, Game.set_wave and load_game)
\* exactly one of wave_active and wave_completed is true
C3_ActiveXorCompleted == wave_active # wave_completed

\* C3: a wave is running again after a recovery from a loss on wave 20
C3_Witness ==
    /\ current_state = "playing"
    /\ go_current_wave = 2 * BOSS_WAVE_PERIOD
    /\ wave_active /\ ~wave_completed

\* C4: in every reachable state where wave_completed is true, the spawn quota
\* is 0 and no monster is active, the states produced by game-over recovery
\* and by load_game included
C4_CompletedMeansDrained ==
    wave_completed => monsters_to_spawn = 0 /\ active_monsters = << >>

\* C5, as the code has it: continuing from GameOver entered at wave W sets the
\* scheduler's wave number to W - 11 when W is at least 11 and to 0 otherwise
\* (one below the wave that starts next, W - 10 or 1), and sets castle health
\* to max health
C5_RecoverySetsWaveBelowSetback ==
    [][ current_state = "game_over" /\ current_state' = "playing"
        => /\ current_wave' = IF go_current_wave >= SETBACK_THRESHOLD
                              THEN go_current_wave - SETBACK_WAVES - 1
                              ELSE 0
           /\ castle_health' = CastleMaxHealth ]_vars

\* C5: the game continues after a loss on wave 20, the scheduler at wave 9
C5_Witness ==
    /\ current_state = "playing"
    /\ go_current_wave = 2 * BOSS_WAVE_PERIOD
    /\ current_wave = BOSS_WAVE_PERIOD - 1
    /\ castle_health = CastleMaxHealth
    /\ wave_completed

\* C5, as stated: continuing from GameOver entered at wave W sets the wave
\* number to W - 10 when W is at least 11 and to 1 otherwise, and sets castle
\* health to max health
C5_RecoverySetsWaveToSetback ==
    [][ current_state = "game_over" /\ current_state' = "playing"
        => /\ current_wave' = IF go_current_wave >= SETBACK_THRESHOLD
                              THEN go_current_wave - SETBACK_WAVES
                              ELSE 1
           /\ castle_health' = CastleMaxHealth ]_vars

\* C6: a wave whose number is a multiple of 10 starts with a quota of exactly
\* one monster and spawns a boss and no regular monster; a wave whose number
\* is not a multiple of 10 spawns regular monsters only
C6_BossWaves ==
    [][ /\ wave_active' /\ current_wave' # current_wave
           /\ IsBossWave(current_wave')
           => monsters_to_spawn' = 1 /\ active_monsters' = << >>
        /\ wave_active' /\ IsBossWave(current_wave')
           => /\ monsters_to_spawn' + Len(active_monsters') <= 1
              /\ \A k \in DOMAIN active_monsters' : IsBoss(active_monsters'[k])
        /\ wave_active' /\ ~IsBossWave(current_wave')
           => \A k \in DOMAIN active_monsters' : ~IsBoss(active_monsters'[k]) ]_vars

\* C6: the boss of wave 10 is the one monster of its wave
C6_Witness ==
    /\ wave_active /\ current_wave = BOSS_WAVE_PERIOD
    /\ monsters_to_spawn = 0
    /\ Len(active_monsters) = 1 /\ IsBoss(active_monsters[1])

(***************************************************************************)
(* Properties of the tower's upgrades and item slots.                      *)
(***************************************************************************)
UpgradeOps == { "upgrade_damage", "upgrade_attack_speed", "upgrade_range" }

\* the two costs of the upgrade path that the call `op` buys for tower t
PathCost(op, t) ==
    CASE op = "upgrade_damage" ->
           [ cost |-> calculate_damage_upgrade_cost(t),
             coins |-> calculate_damage_upgrade_monster_coin_cost(t) ]
      [] op = "upgrade_attack_speed" ->
           [ cost |-> calculate_attack_speed_upgrade_cost(t),
             coins |-> calculate_attack_speed_upgrade_monster_coin_cost(t) ]
      [] op = "upgrade_range" ->
           [ cost |-> calculate_range_upgrade_cost(t),
             coins |-> calculate_range_upgrade_monster_coin_cost(t) ]

\* both costs of the path are affordable at the same time
Affordable(op, t, res) ==
    /\ \A k \in DOMAIN PathCost(op, t).cost : res[k] >= PathCost(op, t).cost[k]
    /\ res["Monster Coins"] >= PathCost(op, t).coins

\* C7: an upgrade (damage, attack speed or range) succeeds only if the ledger
\* affords the resource cost and the Monster Coin cost at the same time, and a
\* successful upgrade deducts exactly the resource cost and exactly the
\* Monster Coin cost, each once, and nothing else
C7_UpgradeDeductsBothCosts ==
    [][ ret'.op \in UpgradeOps /\ ret'.val = TRUE
        => LET pc == PathCost(ret'.op, towers[1])
           IN  /\ Affordable(ret'.op, towers[1], resources)
               /\ resources' =
                    [ k \in ResourceKinds |->
                        resources[k]
                        - (IF k \in DOMAIN pc.cost THEN pc.cost[k] ELSE 0)
                        - (IF k = "Monster Coins" THEN pc.coins ELSE 0) ] ]_vars

\* C7: a Sniper's first attack speed upgrade has succeeded on the rich ledger
C7_Witness ==
    /\ ret = [ op |-> "upgrade_attack_speed", args |-> << >>, val |-> TRUE ]
    /\ towers[1].tower_type = "Sniper"
    /\ towers[1].level = 2
    /\ resources["Stone"] = RichLedger["Stone"] - TOWER_TYPES.Sniper.cost.Stone
    /\ resources["Iron"] = RichLedger["Iron"] - TOWER_TYPES.Sniper.cost.Iron
    /\ resources["Monster Coins"]
         = RichLedger["Monster Coins"] - TOWER_MONSTER_COIN_COSTS.Sniper

\* C8: an upgrade attempted when the resource cost or the Monster Coin cost is
\* unaffordable returns False and changes nothing: no ledger quantity, no
\* level, no base stat and no derived stat
C8_FailedUpgradeIsNoOp ==
    [][ ret'.op \in UpgradeOps /\ ~Affordable(ret'.op, towers[1], resources)
        => ret'.val = FALSE /\ resources' = resources /\ towers' = towers ]_vars

\* C8: an upgrade has been refused for its Monster Coin cost alone, the
\* resource cost being affordable
C8_Witness ==
    /\ ret.op \in UpgradeOps /\ ret.val = FALSE
    /\ has_resources(resources, PathCost(ret.op, towers[1]).cost)
    /\ resources["Monster Coins"] < PathCost(ret.op, towers[1]).coins

\* C9: after any sequence of add_item, remove_item and upgrade calls the
\* derived stats (damage, attack speed, range, area radius, splash flag and
\* radius) equal the stats computed fresh from the base stats and the equipped
\* items, each equipped item applied once
C9_DerivedStatsAreFresh ==
    LET t == towers[1]
        n == Cardinality({ i \in 1..ITEM_SLOTS :
                             t.item_slots[i] = "Unstoppable Force" })
        Widened(x) == IF n = 0 THEN x
                      ELSE IF n = 1 THEN MulX10(x, AOE_RADIUS_MULTIPLIER_X10)
                      ELSE MulX10(MulX10(x, AOE_RADIUS_MULTIPLIER_X10),
                                  AOE_RADIUS_MULTIPLIER_X10)
        single == t.tower_type \in { "Archer", "Sniper" }
    IN  /\ t.damage = t.base_damage
        /\ t.attack_speed = t.base_attack_speed
        /\ t.ref_range = IF t.tower_type = "Frozen"
                         THEN Widened(t.base_ref_range) ELSE t.base_ref_range
        /\ t.range = IF t.tower_type = "Frozen" /\ n > 0
                     THEN scale_value(Widened(t.base_ref_range)) ELSE t.base_range
        /\ t.ref_aoe_radius = IF t.tower_type = "Splash"
                              THEN Widened(t.base_ref_aoe_radius)
                              ELSE t.base_ref_aoe_radius
        /\ t.aoe_radius = IF t.tower_type = "Splash" /\ n > 0
                          THEN scale_value(Widened(t.base_ref_aoe_radius))
                          ELSE t.base_aoe_radius
        /\ t.splash_damage_enabled = (single /\ n > 0)
        /\ t.splash_damage_radius = IF single /\ n > 0
                                    THEN scale_value(FP(SPLASH_DAMAGE_RADIUS))
                                    ELSE 0

\* C9: a Frozen tower with an upgraded range carries the radius item in both
\* slots after an item was equipped over an equipped one
C9_Witness ==
    /\ towers[1].tower_type = "Frozen"
    /\ towers[1].range_level > 1
    /\ towers[1].item_slots = << "Unstoppable Force", "Unstoppable Force" >>
    /\ ret.op = "add_item"
    /\ resources["Serene Spirit"] = RichLedger["Serene Spirit"]
    /\ resources["Unstoppable Force"] = 0

\* C10: add_item into a valid slot adds 1 unit of the previously slotted item
\* (if any) to the ledger and takes exactly 1 unit of the newly equipped item
\* from the ledger
C10_AddItemSwapsOneForOne ==
    [][ ret'.op = "add_item" /\ ret'.val = TRUE
        => LET item == ret'.args[1]
               previous == towers[1].item_slots[ret'.args[2] + 1]
           IN  resources' =
                 [ k \in ResourceKinds |->
                     resources[k] + (IF k = previous THEN 1 ELSE 0)
                                  - (IF k = item THEN 1 ELSE 0) ] ]_vars

(***************************************************************************)
(* Properties of saving and loading towers.                                *)
(***************************************************************************)
\* C11: for every tower (any variant, upgrade levels and equipped items),
\* serialize_tower followed by deserialize_tower yields a tower of the same
\* variant at the same position with identical derived stats (damage, attack
\* speed, range and the variant's own stats) and the same equipped items
C11_TowerRoundTrip ==
    ret.op = "reload_tower"
    => LET t == towers[1]
           u == ret.val
       IN  /\ u.tower_type = t.tower_type
           /\ u.position = t.position
           /\ u.damage = t.damage
           /\ u.attack_speed = t.attack_speed
           /\ u.range = t.range
           /\ u.aoe_radius = t.aoe_radius
           /\ u.slow_effect = t.slow_effect
           /\ u.slow_duration = t.slow_duration
           /\ u.item_slots = t.item_slots

(***************************************************************************)
(* Properties of the game's states.                                        *)
(***************************************************************************)
States == { "main_menu", "playing", "paused", "tower_placement", "game_over" }

\* the state changes C12 lists
ListedChanges ==
    { << "main_menu", "playing" >>, << "playing", "paused" >>,
      << "paused", "playing" >>, << "playing", "tower_placement" >>,
      << "tower_placement", "playing" >>, << "playing", "game_over" >>,
      << "game_over", "playing" >> }

\* the calls are pairs of an exit and an enter, each pair a listed change
\* that starts in the state `from`, the last one ending in the state `to`
RECURSIVE ListedChain(_, _, _)
ListedChain(cs, from, to) ==
    IF cs = << >> THEN from = to
    ELSE /\ Len(cs) >= 2
         /\ cs[1] = [ fn |-> "exit", state |-> from ]
         /\ cs[2].fn = "enter"
         /\ << from, cs[2].state >> \in ListedChanges
         /\ ListedChain(SubSeq(cs, 3, Len(cs)), cs[2].state, to)

\* C12: exactly one game state is active at a time, the initial state is
\* main_menu, and the only state changes that ever occur are main_menu to
\* playing, playing to paused and back, playing to tower_placement and back,
\* playing to game_over, and game_over to playing; each change calls exit on
\* the old state and then enter on the new one
C12_ListedStateChangesOnly ==
    /\ current_state \in States
    /\ [][ ListedChain(calls', current_state, current_state') ]_vars

\* C13: whenever a Playing update finishes its simulation step with castle
\* health at or below 0, the active state after that update is game_over: no
\* step taken in the Playing state ends in a state other than game_over with
\* castle health at or below 0
C13_LossEntersGameOver ==
    [][ current_state = "playing" /\ castle_health' <= 0
        => current_state' = "game_over" ]_vars

\* C13: the castle fell in a Playing update on wave 10 and the game is over
C13_Witness ==
    /\ current_state = "game_over"
    /\ castle_health <= 0
    /\ calls = change_state_calls("playing", "game_over")
    /\ go_current_wave = BOSS_WAVE_PERIOD

\* C14: while the active state is paused, no update tick changes the
\* simulation: the wave number, spawn timer, spawn quota, active monsters,
\* every tower's attack timer and the castle's health are the same after the
\* tick as before it
C14_PausedFreezesSimulation ==
    [][ current_state = "paused" /\ current_state' = "paused"
        => /\ current_wave' = current_wave
           /\ spawn_timer' = spawn_timer
           /\ monsters_to_spawn' = monsters_to_spawn
           /\ active_monsters' = active_monsters
           /\ castle_health' = castle_health
           /\ Len(towers') = Len(towers)
           /\ \A i \in DOMAIN towers :
                towers'[i].attack_timer = towers[i].attack_timer
           /\ Len(playing_towers') = Len(playing_towers)
           /\ \A i \in DOMAIN playing_towers :
                playing_towers'[i].attack_timer = playing_towers[i].attack_timer
      ]_vars

\* C14: an update has run in the Paused state in the middle of a wave, with a
\* monster on the field, the spawn timer running and a tower between attacks
C14_Witness ==
    /\ current_state = "paused"
    /\ calls = << >>
    /\ wave_active /\ monsters_to_spawn > 0
    /\ spawn_timer > 0 /\ spawn_timer < MONSTER_SPAWN_INTERVAL
    /\ active_monsters # << >>
    /\ Len(towers) > 0 /\ towers[1].attack_timer > 0
    /\ castle_health < CastleMaxHealth

C16_CancelLeavesNoPartialState ==
    [][ /\ current_state # "tower_placement" /\ current_state' = "tower_placement"
           => resources' = resources /\ towers' = towers
        /\ current_state = "tower_placement" /\ Len(towers') = Len(towers)
           => resources' = resources /\ towers' = towers
        /\ current_state = "tower_placement" /\ current_state' = "playing"
           => placement_type' = None ]_vars

\* C16: a placement was entered and cancelled: no tower, the starting
\* ledger, no pending tower type, and the Playing state
C16_Witness ==
    /\ current_state = "playing"
    /\ calls = change_state_calls("tower_placement", "playing")
    /\ towers = << >>
    /\ resources = INITIAL_RESOURCES
    /\ placement_type = None

(***************************************************************************)
(* Properties of the game over screen.                                     *)
(***************************************************************************)
\* C17: GameOver is non-terminal: each entry restarts the countdown at 0, the
\* countdown never stands at 15 seconds or more on the game over screen, and
\* from game_over, if updates keep arriving, the state eventually returns to
\* playing
C17_GameOverReturnsToPlaying ==
    /\ [][ current_state # "game_over" /\ current_state' = "game_over"
           => time_in_state' = 0 ]_vars
    /\ [](current_state = "game_over" => time_in_state < AUTO_CONTINUE_TIME)
    /\ (current_state = "game_over" ~> current_state = "playing")

\* C17: the countdown ran out on the game over screen after a loss on wave
\* 10, with no confirm, and the game is back in the Playing state
C17_Witness ==
    /\ current_state = "playing"
    /\ calls = change_state_calls("game_over", "playing")
    /\ time_in_state = AUTO_CONTINUE_TIME
    /\ go_current_wave = BOSS_WAVE_PERIOD

\* C18: after game-over recovery (continue_game) the active-monster set is
\* empty, wave_active is false, the spawn quota is 0 and the active state is
\* playing, whatever the scheduler's state was when the castle fell
C18_RecoveryClearsTheWave ==
    [][ current_state = "game_over" /\ current_state' # "game_over"
        => /\ active_monsters' = << >>
           /\ ~wave_active'
           /\ monsters_to_spawn' = 0
           /\ current_state' = "playing" ]_vars

\* C18: the game has recovered from a loss in the middle of wave 1, the spawn
\* timer still where the running wave left it
C18_Witness ==
    /\ current_state = "playing"
    /\ calls = change_state_calls("game_over", "playing")
    /\ go_current_wave = 1
    /\ spawn_timer > 0
    /\ active_monsters = << >> /\ ~wave_active /\ monsters_to_spawn = 0

(***************************************************************************)
(* Properties of the start of a wave.                                      *)
(***************************************************************************)
\* C19: in the Playing state with continuous_wave set, whenever the current
\* wave is completed and no wave is active at the end of the simulation step,
\* the next wave is started in that same update (wave number +1); in every
\* other case the update starts no wave, and with continuous_wave unset a
\* wave starts only by start_next_wave on the scheduler as it stands
C19_ContinuousWaveStartsNext ==
    [][ /\ \A dt \in 1..MaxDt, regen \in 0..1, health \in 1..MaxMonsterHealth,
              arrive \in SUBSET (Ids(active_monsters)
                                  \cup { FreshId(active_monsters) }),
              choice \in [ 1..Len(playing_towers) ->
                             { 0 } \cup Ids(active_monsters)
                                   \cup { FreshId(active_monsters) } ] :
             PlayingUpdate(dt, regen, arrive, health, choice)
             => LET w == WaveManager_update(
                             WaveManager, Castle_update(castle_health, regen),
                             resources, dt, arrive,
                             health * FP(TOWER_TYPES.Archer.damage))
                    sim == TowersUpdate(playing_towers, 1, w.wm, w.res, dt,
                                        choice).wm
                    due == sim.wave_completed /\ ~sim.wave_active
                IN  IF continuous_wave /\ due
                    THEN /\ current_wave' = sim.current_wave + 1
                         /\ wave_active' /\ ~wave_completed'
                    ELSE /\ current_wave' = sim.current_wave
                         /\ wave_active' = sim.wave_active
        /\ ~continuous_wave /\ ~wave_active /\ wave_active'
           => /\ current_wave' = current_wave + 1
              /\ active_monsters' = active_monsters
              /\ castle_health' = castle_health
              /\ current_state' = current_state ]_vars

\* C19: in continuous wave mode wave 2 has been started by the update that
\* completed wave 1
C19_Witness ==
    /\ current_state = "playing"
    /\ continuous_wave
    /\ current_wave = 2 /\ wave_active /\ ~wave_completed
    /\ monsters_to_spawn = RegularWaveCount(2)
    /\ active_monsters = << >>
    /\ castle_health < CastleMaxHealth

\* C20: start_next_wave called while a wave is active returns False and is a
\* no-op: the wave number, spawn quota, spawn timer, active monsters,
\* wave_active and wave_completed are unchanged
C20_StartWhileActiveIsNoOp ==
    [][ ret'.op = "start_next_wave" /\ wave_active
        => /\ ret'.val = FALSE
           /\ current_wave' = current_wave
           /\ monsters_to_spawn' = monsters_to_spawn
           /\ spawn_timer' = spawn_timer
           /\ active_monsters' = active_monsters
           /\ wave_active' = wave_active
           /\ wave_completed' = wave_completed ]_vars

\* C20: start_next_wave has returned False in the middle of wave 9, with
\* monsters on the field, monsters left to spawn and the spawn timer running
C20_Witness ==
    /\ ret = [ op |-> "start_next_wave", args |-> << >>, val |-> FALSE ]
    /\ wave_active /\ ~wave_completed
    /\ current_wave = BOSS_WAVE_PERIOD - 1
    /\ Len(active_monsters) = MaxActive
    /\ monsters_to_spawn > 0
    /\ spawn_timer > 0


(***************************************************************************)
(* Properties of the wave number.                                          *)
(***************************************************************************)
\* C21: over the scheduler's own operations the wave number never decreases:
\* a Playing update (WaveManager.update followed by the continuous advance)
\* leaves it alone or raises it by 1, and start_next_wave raises it by
\* exactly 1 when it succeeds (no wave active) and leaves it alone otherwise
C21_WaveNumberNeverDecreases ==
    [][ /\ PlayingTick
           => /\ current_wave' >= current_wave
              /\ current_wave' <= current_wave + 1
              /\ current_wave' = current_wave + 1
                 => wave_active' /\ ~wave_completed'
        /\ PlayingStartNextWave
           => current_wave' = IF wave_active THEN current_wave
                              ELSE current_wave + 1 ]_vars

\* C21: wave 11 runs, started from the completed boss wave, with its spawn
\* quota untouched
C21_Witness ==
    /\ current_state = "playing"
    /\ current_wave = BOSS_WAVE_PERIOD + 1
    /\ wave_active /\ ~wave_completed
    /\ monsters_to_spawn = RegularWaveCount(BOSS_WAVE_PERIOD + 1)
    /\ spawn_timer = 0
    /\ active_monsters = << >>


(***************************************************************************)
(* One tower and a field of monsters: Tower.update called on a tower that  *)
(* stands on the line the monsters walk on, the monsters around the edge   *)
(* of its range.                                                           *)
(***************************************************************************)
\* MONSTER_STATS of config.py: health and the flying flag
MONSTER_STATS ==
    [ Grunt |-> [ health |-> 50, flying |-> FALSE ],
      Runner |-> [ health |-> 25, flying |-> FALSE ],
      Tank |-> [ health |-> 200, flying |-> FALSE ],
      Flyer |-> [ health |-> 40, flying |-> TRUE ] ]

\* the monster types on the field
FieldTypes == { "Runner", "Flyer" }

\* the towers explored: every type as built and, for the single-target
\* towers, with the splash item in the first slot
FieldTowers ==
    { Tower(0, ty) : ty \in TowerTypes }
    \cup { add_item(Tower(0, ty), "Unstoppable Force", 0, RichLedger).t :
           ty \in { "Archer", "Sniper" } }

\* positions around the edge of the range r of the tower at 0: two inside it
\* and 30 apart, one as far away as the second on the other side, and one
\* outside the range
FieldPositions(t) ==
    LET r == t.range \div StatScale
    IN  { r - 40, r - 10, 10 - r, r + 10 }

FieldMonster(id, type, position) ==
    [ Monster(id, Regular, FP(MONSTER_STATS[type].health)) EXCEPT
        !.position = position, !.flying = MONSTER_STATS[type].flying ]

Fields(t) ==
    { [ i \in 1..FieldSize |-> FieldMonster(i, type[i], position[i]) ] :
      type \in [ 1..FieldSize -> FieldTypes ],
      position \in [ 1..FieldSize -> FieldPositions(t) ] }

\* what the last call on the tower did: the target list it built, whether
\* it attacked, the calls of the attack, the number of calls so far and the
\* time passed to update since the tower attacked or was built
FieldCall(op, dt, targets, fired, attack_calls, n, since) ==
    [ op |-> op, args |-> << dt >>,
      val |-> [ targets |-> targets, fired |-> fired,
                hits |-> attack_calls.hits, handed |-> attack_calls.handed,
                n |-> n, since |-> since ] ]

InitAttack ==
    /\ current_state = "playing"
    /\ current_wave = 1
    /\ towers \in { << t >> : t \in FieldTowers }
    /\ playing_towers = towers
    /\ active_monsters \in Fields(towers[1])
    /\ spawn_timer = 0
    /\ monsters_to_spawn = 0
    /\ wave_active = TRUE
    /\ wave_completed = FALSE
    /\ continuous_wave = TRUE
    /\ castle_health = CastleMaxHealth
    /\ resources = INITIAL_RESOURCES
    /\ towers_rebound = FALSE
    /\ placement_type = None
    /\ time_in_state = 0
    /\ go_current_wave = 0
    /\ setback_wave = 1
    /\ ret = FieldCall("none", 0, << >>, FALSE, NoCalls, 0, 0)
    /\ is_paused = FALSE
    /\ paused = FALSE
    /\ autosaved = 0
    /\ calls = << >>

\* tower.update(dt, wave_manager.active_monsters) on a single-target tower
TowerUpdateCall(dt) ==
    /\ towers[1].tower_type \in { "Archer", "Sniper" }
    /\ ret.val.n < MaxUpdates
    /\ LET u == Tower_update(towers[1], WaveManager, resources, dt,
                             within_range_by_distance(towers[1], active_monsters))
       IN  /\ towers' = << u.t >>
           /\ playing_towers' = << u.t >>
           /\ SetWaveManager(u.wm)
           /\ resources' = u.res
           /\ ret' = FieldCall("update", dt, u.targets, u.fired, u.calls,
                               ret.val.n + 1,
                               IF u.fired THEN 0 ELSE ret.val.since + dt)
    /\ NoStateChange
    /\ UNCHANGED << current_state, continuous_wave, castle_health,
                    towers_rebound, placement_type, game_over_vars >>

\* tower.find_targets(wave_manager.active_monsters) on a tower whose attack
\* is not part of the model
FindTargetsCall ==
    /\ towers[1].tower_type \in { "Splash", "Frozen" }
    /\ ret.val.n < MaxUpdates
    /\ LET targets == find_targets(towers[1], active_monsters,
                          within_range_by_distance(towers[1], active_monsters))
       IN  ret' = FieldCall("find_targets", 0,
                            [ i \in DOMAIN targets |-> targets[i].id ],
                            FALSE, NoCalls, ret.val.n + 1, 0)
    /\ NoStateChange
    /\ UNCHANGED << current_state, wave_vars, continuous_wave, castle_health,
                    resources, tower_vars, placement_type, game_over_vars >>

NextAttack ==
    \/ \E dt \in 1..MaxAttackDt : TowerUpdateCall(dt)
    \/ FindTargetsCall

SpecAttack == InitAttack /\ [][NextAttack]_vars


(***************************************************************************)
(* Properties of the towers' attacks.                                      *)
(***************************************************************************)
\* the monster object with the given id, as it is before the call
OnField(id) ==
    CHOOSE m \in { active_monsters[k] : k \in DOMAIN active_monsters } : m.id = id

\* the ids of a sequence of ids, as a set
IdSet(ids) == { ids[i] : i \in DOMAIN ids }

\* C22: when an Archer or Sniper tower with the splash item attacks, the
\* other living targets within the splash radius of the primary target each
\* receive one take_damage of exactly 50% of the tower's damage, and every
\* other monster but the primary target receives no damage
C22_SplashHitsTargetsInRadius ==
    [][ /\ ret'.op = "update" /\ ret'.val.fired
        /\ "Unstoppable Force" \in IdSet(towers[1].item_slots)
        => LET t == towers[1]
               hits == ret'.val.hits
               primary == OnField(hits[1].id)
               Secondary(m) == { k \in 2..Len(hits) : hits[k].id = m.id }
               InRadius(m) ==
                   /\ m.id \in IdSet(ret'.val.targets)
                   /\ ~m.is_dead
                   /\ FP(distance(m.position, primary.position))
                        <= scale_value(FP(SPLASH_DAMAGE_RADIUS))
           IN  \A k \in DOMAIN active_monsters :
                 LET m == active_monsters[k]
                 IN  m.id # primary.id
                     => IF InRadius(m)
                        THEN /\ Cardinality(Secondary(m)) = 1
                             /\ \A h \in Secondary(m) :
                                  2 * hits[h].amount = t.damage
                             /\ active_monsters'[k].health
                                  = Max(0, m.health - t.damage \div 2)
                        ELSE /\ Secondary(m) = { }
                             /\ active_monsters'[k] = m ]_vars

\* C22: a tower with the splash item has attacked with three targets in
\* range: the primary target, one more that took the splash damage and one
\* that took none
C22_Witness ==
    /\ ret.op = "update" /\ ret.val.fired
    /\ towers[1].splash_damage_enabled
    /\ Len(ret.val.targets) = FieldSize
    /\ Len(ret.val.hits) = 2
    /\ 2 * ret.val.hits[2].amount = towers[1].damage

\* C23: an attack that brings a monster's health to 0 or below, as primary
\* target or by splash, hands that monster to handle_monster_death exactly
\* once
C23_KilledHandedOnce ==
    [][ ret'.op = "update" /\ ret'.val.fired
        => \A k \in DOMAIN active_monsters :
             ~active_monsters[k].is_dead /\ active_monsters'[k].health <= 0
             => Cardinality({ h \in DOMAIN ret'.val.handed :
                                ret'.val.handed[h] = active_monsters[k].id }) = 1
      ]_vars

\* C24: Tower.update attacks only when the time passed to update since the
\* tower's last attack (or its construction) has reached 1/attack_speed and
\* the target list is not empty, and the attack leaves the timer at 0; no
\* damage is dealt by an update that does not attack
C24_AttackOnlyAfterThePeriod ==
    [][ ret'.op = "update"
        => LET t == towers[1]
               dt == ret'.args[1]
           IN  /\ ret'.val.fired
                  => /\ timer_elapsed(t, ret.val.since + dt)
                     /\ ret'.val.targets # << >>
                     /\ towers'[1].attack_timer = 0
               /\ ~ret'.val.fired
                  => /\ ret'.val.hits = << >>
                     /\ active_monsters' = active_monsters ]_vars

\* C24: an Archer tower has attacked the same Runner twice
C24_Witness ==
    /\ ret.op = "update" /\ ret.val.fired
    /\ towers[1].tower_type = "Archer" /\ ~towers[1].splash_damage_enabled
    /\ towers[1].attack_timer = 0
    /\ \E k \in DOMAIN active_monsters :
         /\ active_monsters[k].id = ret.val.hits[1].id
         /\ active_monsters[k].health
              = FP(MONSTER_STATS.Runner.health) - 2 * towers[1].damage

\* C25: after find_targets the target list holds exactly the monsters that
\* are not dead, are within the tower's range and are not flying unless the
\* tower is an Archer or a Sniper, each once, nearest first; every monster an
\* attack damages is one of them
C25_TargetsAreLivingInRangeSorted ==
    [][ ret'.op \in { "update", "find_targets" }
        => LET t == towers[1]
               targets == ret'.val.targets
               Eligible(m) ==
                   /\ ~m.is_dead
                   /\ FP(distance(t.position, m.position)) <= t.range
                   /\ m.flying => t.tower_type \in { "Archer", "Sniper" }
               eligible == { active_monsters[k].id :
                             k \in { j \in DOMAIN active_monsters :
                                       Eligible(active_monsters[j]) } }
           IN  /\ IdSet(targets) = eligible
               /\ Len(targets) = Cardinality(eligible)
               /\ \A i, j \in DOMAIN targets :
                    i < j => distance(t.position, OnField(targets[i]).position)
                             <= distance(t.position, OnField(targets[j]).position)
               /\ \A h \in DOMAIN ret'.val.hits :
                    ret'.val.hits[h].id \in eligible ]_vars

\* C25: a Splash or Frozen tower has built a target list of one monster from
\* a field with a flying monster within its range and a walking monster
\* outside it
C25_Witness ==
    /\ ret.op = "find_targets"
    /\ Len(ret.val.targets) = 1
    /\ \E k \in DOMAIN active_monsters :
         /\ active_monsters[k].flying
         /\ FP(distance(towers[1].position, active_monsters[k].position))
              <= towers[1].range
    /\ \E k \in DOMAIN active_monsters :
         /\ ~active_monsters[k].flying
         /\ FP(distance(towers[1].position, active_monsters[k].position))
              > towers[1].range

\* C26: the primary target of a Sniper attack is the target of highest
\* health, the earliest such in the target list; the primary target of an
\* Archer attack is the first of the target list, no target being nearer
C26_PrimaryTargetSelection ==
    [][ ret'.op = "update" /\ ret'.val.fired
        => LET t == towers[1]
               targets == ret'.val.targets
               primary == ret'.val.hits[1].id
               at == CHOOSE i \in DOMAIN targets : targets[i] = primary
           IN  /\ primary \in IdSet(targets)
               /\ IF t.tower_type = "Sniper"
                  THEN /\ \A j \in DOMAIN targets :
                            OnField(targets[j]).health <= OnField(primary).health
                       /\ \A j \in 1..(at - 1) :
                            OnField(targets[j]).health < OnField(primary).health
                  ELSE /\ at = 1
                       /\ \A j \in DOMAIN targets :
                            distance(t.position, OnField(primary).position)
                            <= distance(t.position,
                                        OnField(targets[j]).position) ]_vars

\* C26: a Sniper tower has attacked with two walking monsters of the same
\* health in its target list and no flying one: the first of the list was
\* hit and the second is untouched
C26_Witness ==
    /\ ret.op = "update" /\ ret.val.fired
    /\ towers[1].tower_type = "Sniper" /\ ~towers[1].splash_damage_enabled
    /\ Len(ret.val.targets) = 2
    /\ ret.val.hits[1].id = ret.val.targets[1]
    /\ \A k \in DOMAIN active_monsters :
         active_monsters[k].id \in IdSet(ret.val.targets)
         => ~active_monsters[k].flying
    /\ \E k \in DOMAIN active_monsters :
         /\ active_monsters[k].id = ret.val.targets[2]
         /\ active_monsters[k].health = FP(MONSTER_STATS.Runner.health)


(***************************************************************************)
(* Properties of the upgrade paths.                                        *)
(***************************************************************************)
\* the level and the base stats of each upgrade path of tower t
PathState(t) ==
    [ upgrade_damage |->
        [ level |-> t.damage_level, base |-> << t.base_damage >> ],
      upgrade_attack_speed |->
        [ level |-> t.attack_speed_level, base |-> << t.base_attack_speed >> ],
      upgrade_range |->
        [ level |-> t.range_level,
          base |-> << t.base_ref_range, t.base_range >> ] ]

\* C27: a successful upgrade of one path raises that path's level by exactly
\* 1 and leaves the levels and the base stats of the other two paths
\* unchanged; a failed upgrade changes no level; no call on the tower lowers
\* a path level
C27_UpgradePathsIndependent ==
    [][ LET before == PathState(towers[1])
            after == PathState(towers'[1])
        IN  /\ \A p \in UpgradeOps : after[p].level >= before[p].level
            /\ ret'.op \in UpgradeOps /\ ret'.val = TRUE
               => /\ after[ret'.op].level = before[ret'.op].level + 1
                  /\ \A p \in UpgradeOps \ { ret'.op } : after[p] = before[p]
            /\ ret'.op \in UpgradeOps /\ ret'.val = FALSE
               => \A p \in UpgradeOps : after[p] = before[p] ]_vars

\* C27: the range upgrade has succeeded on a tower whose damage path is at
\* the highest level explored and whose attack speed path was never upgraded
C27_Witness ==
    /\ ret = [ op |-> "upgrade_range", args |-> << >>, val |-> TRUE ]
    /\ towers[1].damage_level = MaxLevel
    /\ towers[1].attack_speed_level = 1
    /\ towers[1].range_level = 2
    /\ towers[1].level = MaxLevel + 1


(***************************************************************************)
(* The upgrade costs along the levels: a tower upgraded on every path, in  *)
(* any order, by a player who can afford every upgrade.                    *)
(***************************************************************************)
\* a ledger that affords every upgrade up to MaxCostLevel on the three paths
AmpleLedger ==
    [ k \in ResourceKinds |->
        CASE k = "Stone" -> 20000
          [] k = "Iron" -> 5000
          [] k = "Copper" -> 2000
          [] k = "Monster Coins" -> 20000
          [] OTHER -> 0 ]

InitCost ==
    /\ current_state = "playing"
    /\ current_wave = 0
    /\ active_monsters = << >>
    /\ spawn_timer = 0
    /\ monsters_to_spawn = 0
    /\ wave_active = FALSE
    /\ wave_completed = TRUE
    /\ continuous_wave = TRUE
    /\ castle_health = CastleMaxHealth
    /\ resources = AmpleLedger
    /\ \E ty \in TowerTypes : towers = << Tower(MaxPos, ty) >>
    /\ playing_towers = towers
    /\ towers_rebound = FALSE
    /\ placement_type = None
    /\ time_in_state = 0
    /\ go_current_wave = 0
    /\ setback_wave = 1
    /\ ret = NoCall
    /\ is_paused = FALSE
    /\ paused = FALSE
    /\ autosaved = 0
    /\ calls = << >>

\* TowerMenu.upgrade_damage, with the costs the call computed
PaidUpgradeDamage ==
    /\ towers[1].damage_level < MaxCostLevel
    /\ TowerCall("upgrade_damage",
                 << calculate_damage_upgrade_cost(towers[1]),
                    calculate_damage_upgrade_monster_coin_cost(towers[1]) >>,
                 upgrade_damage(towers[1], resources))

\* TowerMenu.upgrade_attack_speed, with the costs the call computed
PaidUpgradeAttackSpeed ==
    /\ towers[1].attack_speed_level < MaxCostLevel
    /\ TowerCall("upgrade_attack_speed",
                 << calculate_attack_speed_upgrade_cost(towers[1]),
                    calculate_attack_speed_upgrade_monster_coin_cost(towers[1]) >>,
                 upgrade_attack_speed(towers[1], resources))

\* TowerMenu.upgrade_range, with the costs the call computed
PaidUpgradeRange ==
    /\ towers[1].range_level < MaxCostLevel
    /\ TowerCall("upgrade_range",
                 << calculate_range_upgrade_cost(towers[1]),
                    calculate_range_upgrade_monster_coin_cost(towers[1]) >>,
                 upgrade_range(towers[1], resources))

NextCost ==
    \/ PaidUpgradeDamage
    \/ PaidUpgradeAttackSpeed
    \/ PaidUpgradeRange

SpecCost == InitCost /\ [][NextCost]_vars

\* C28: for every tower type, every resource of its base cost and every
\* upgrade path, the resource cost int(base * 1.5^(level-1)) and the Monster
\* Coin cost int(mcBase * 1.3^(level-1)) of the path are both strictly larger
\* after the path's level has been raised by 1 than they were for the upgrade
\* that raised it, for the levels up to MaxCostLevel
C28_UpgradeCostsStrictlyIncrease ==
    [][ ret'.op \in UpgradeOps /\ ret'.val = TRUE
        => LET paid == ret'.args
               next == PathCost(ret'.op, towers'[1])
           IN  /\ PathState(towers'[1])[ret'.op].level
                    = PathState(towers[1])[ret'.op].level + 1
               /\ DOMAIN next.cost = DOMAIN TOWER_TYPES[towers[1].tower_type].cost
               /\ \A k \in DOMAIN next.cost : next.cost[k] > paid[1][k]
               /\ next.coins > paid[2] ]_vars

\* C28: a Splash tower, whose base cost holds 2 Copper, has had its range
\* raised to the highest level explored, the other paths never upgraded
C28_Witness ==
    /\ ret.op = "upgrade_range" /\ ret.val = TRUE
    /\ towers[1].tower_type = "Splash"
    /\ towers[1].range_level = MaxCostLevel
    /\ towers[1].damage_level = 1 /\ towers[1].attack_speed_level = 1
    /\ ret.args[1].Copper
         = (TOWER_TYPES.Splash.cost.Copper
              * Pow(TOWER_UPGRADE_COST_MULTIPLIER_X10, MaxCostLevel - 2))
           \div Pow(10, MaxCostLevel - 2)


(***************************************************************************)
(* The spawns of a wave: the scheduler at the start of any wave up to      *)
(* MaxSpawnWave, and the spawn steps of its updates.                       *)
(***************************************************************************)
InitSpawn ==
    /\ current_state = "playing"
    /\ \E w \in 1..MaxSpawnWave :
         LET started == start_next_wave(
                            [ WaveManagerInit EXCEPT !.current_wave = w - 1 ])
         IN  /\ current_wave = started.current_wave
             /\ active_monsters = started.active_monsters
             /\ spawn_timer = started.spawn_timer
             /\ monsters_to_spawn = started.monsters_to_spawn
             /\ wave_active = started.wave_active
             /\ wave_completed = started.wave_completed
    /\ continuous_wave = TRUE
    /\ castle_health = CastleMaxHealth
    /\ resources = INITIAL_RESOURCES
    /\ towers = << >>
    /\ playing_towers = << >>
    /\ towers_rebound = FALSE
    /\ placement_type = None
    /\ time_in_state = 0
    /\ go_current_wave = 0
    /\ setback_wave = 1
    /\ ret = [ op |-> "start_next_wave", args |-> << >>,
               val |-> [ quota |-> monsters_to_spawn, spawned |-> 0 ] ]
    /\ is_paused = FALSE
    /\ paused = FALSE
    /\ autosaved = 0
    /\ calls = << >>

\* the monsters the spawn step of an update adds to active_monsters
SpawnedBy(wm, dt) ==
    Len(spawn_step(wm, dt, 0).active_monsters) - Len(wm.active_monsters)

\* the spawn step of WaveManager.update(dt, castle), no monster having moved;
\* the call is recorded with the wave's quota and the monsters spawned so far
SpawnStep(dt) ==
    /\ wave_active
    /\ Len(active_monsters) < MaxActive
    /\ SetWaveManager(spawn_step(WaveManager, dt, FP(TOWER_TYPES.Archer.damage)))
    /\ ret' = [ op |-> "update", args |-> << dt >>,
                val |-> [ ret.val EXCEPT
                            !.spawned = @ + SpawnedBy(WaveManager, dt) ] ]
    /\ NoStateChange
    /\ UNCHANGED << current_state, continuous_wave, castle_health, resources,
                    tower_vars, placement_type, game_over_vars >>

\* WaveManager.update(dt, castle) on a wave of at most MaxQuota monsters,
\* the monsters of `arrive` reaching the castle in it
WaveUpdateCall(dt, arrive) ==
    /\ wave_active
    /\ ret.val.quota <= MaxQuota
    /\ arrive # { }
    /\ LET w == WaveManager_update(WaveManager, castle_health, resources, dt,
                                   arrive, FP(TOWER_TYPES.Archer.damage))
       IN  /\ Len(w.wm.active_monsters) <= MaxActive
           /\ SetWaveManager(w.wm)
           /\ resources' = w.res
           /\ castle_health' = w.castle
    /\ ret' = [ op |-> "update", args |-> << dt >>,
                val |-> [ ret.val EXCEPT
                            !.spawned = @ + SpawnedBy(WaveManager, dt) ] ]
    /\ NoStateChange
    /\ UNCHANGED << current_state, continuous_wave, tower_vars, placement_type,
                    game_over_vars >>

NextSpawn ==
    \/ \E dt \in 1..MaxDt : SpawnStep(dt)
    \/ \E dt \in 1..MaxDt, arrive \in SUBSET Ids(active_monsters) :
         WaveUpdateCall(dt, arrive)

SpecSpawn == InitSpawn /\ [][NextSpawn]_vars

\* The waves of SpecSpawn under the scheduling of the game loop: updates with
\* positive dt keep arriving, and the monsters on the field reach the castle
\* in one of them.
SpecSpawnLive ==
    /\ InitSpawn
    /\ [][NextSpawn]_vars
    /\ WF_vars(\E dt \in 1..MaxDt : SpawnStep(dt))
    /\ WF_vars(\E dt \in 1..MaxDt : WaveUpdateCall(dt, Ids(active_monsters)))

\* the fixed order of the boss kinds
BossOrder == << "Force", "Spirit", "Magic", "Void" >>

\* C29: on a boss wave w, a multiple of 10, the monster spawned is the boss
\* of kind number (w/10 - 1) mod 4 (counted from 0) of the order Force,
\* Spirit, Magic, Void, which is also the kind of wave w + 40
C29_BossKindCycles ==
    [][ Len(active_monsters') = Len(active_monsters) + 1
        /\ current_wave % 10 = 0
        => LET w == current_wave
               spawned == active_monsters'[Len(active_monsters')]
           IN  /\ spawned.kind = BossOrder[((w \div 10 - 1) % 4) + 1]
               /\ spawned.kind = BossOrder[(((w + 40) \div 10 - 1) % 4) + 1]
               /\ \A v \in { w + 10, w + 20, w + 30 } :
                    spawned.kind # BossOrder[((v \div 10 - 1) % 4) + 1] ]_vars

\* C29: wave 50 has spawned the Force boss, the boss of wave 10
C29_Witness ==
    /\ current_wave = 5 * BOSS_WAVE_PERIOD
    /\ Len(active_monsters) = 1
    /\ active_monsters[1].kind = "Force"
    /\ monsters_to_spawn = 0


(***************************************************************************)
(* The building site: towers placed one after the other, in the Playing    *)
(* and TowerPlacement states, on positions half a tower's width apart.     *)
(***************************************************************************)
InitSite ==
    /\ current_state = "playing"
    /\ current_wave = 0
    /\ active_monsters = << >>
    /\ spawn_timer = 0
    /\ monsters_to_spawn = 0
    /\ wave_active = FALSE
    /\ wave_completed = TRUE
    /\ continuous_wave = TRUE
    /\ castle_health = CastleMaxHealth
    /\ resources \in TowerLedgers
    /\ towers = << >>
    /\ playing_towers = << >>
    /\ towers_rebound = FALSE
    /\ placement_type = None
    /\ time_in_state = 0
    /\ go_current_wave = 0
    /\ setback_wave = 1
    /\ ret = NoCall
    /\ is_paused = FALSE
    /\ paused = FALSE
    /\ autosaved = 0
    /\ calls = change_state_calls("main_menu", "playing")

\* TowerPlacementUI.select_tower(tower_type): enter_tower_placement_mode
SelectTower(ty) ==
    /\ current_state = "playing"
    /\ Len(towers) < MaxPlaced
    /\ current_state' = "tower_placement"
    /\ calls' = change_state_calls("playing", "tower_placement")
    /\ autosaved' = 0
    /\ placement_type' = ty
    /\ UNCHANGED << is_paused, paused >>
    /\ UNCHANGED << wave_vars, continuous_wave, castle_health, resources,
                    tower_vars, game_over_vars, ret >>

NextSite ==
    \/ \E ty \in TowerTypes : SelectTower(ty)
    \/ \E position \in 0..MaxSitePos : PlaceTower(position)
    \/ CancelPlacement

SpecSite == InitSite /\ [][NextSite]_vars

\* the footprints of two structures centred on p and q share an area
Overlap(p, q) == (p - q) < TOWER_SIZE /\ (q - p) < TOWER_SIZE

\* C30: no two placed towers have overlapping footprints and no placed tower
\* overlaps a building, whatever placements were attempted
C30_NoOverlappingStructures ==
    /\ \A i, j \in DOMAIN towers :
         i # j => ~Overlap(towers[i].position, towers[j].position)
    /\ \A i \in DOMAIN towers, b \in BuildingPositions :
         ~Overlap(towers[i].position, b)

\* C30: three towers stand side by side, footprint against footprint, the
\* first of them against the building's footprint
C30_Witness ==
    /\ Len(towers) = MaxPlaced
    /\ \E b \in BuildingPositions :
         { towers[i].position : i \in DOMAIN towers }
           = { b + k * TOWER_SIZE : k \in 1..MaxPlaced }


(***************************************************************************)
(* Properties of the spawns of a wave.                                     *)
(***************************************************************************)
\* C31: an update of an active wave spawns one monster when the spawn timer
\* with dt added has reached the spawn interval and the quota is positive,
\* and none otherwise; a spawn lowers the quota by 1 and leaves the timer at
\* 0; the quota is never negative; when the wave completes, the monsters
\* spawned in it are as many as the quota start_next_wave computed
C31_SpawnsFollowTimerAndQuota ==
    [][ ret'.op = "update" /\ wave_active
        => LET n == ret'.val.spawned - ret.val.spawned
               due == /\ spawn_timer + ret'.args[1] >= MONSTER_SPAWN_INTERVAL
                      /\ monsters_to_spawn > 0
           IN  /\ n = IF due THEN 1 ELSE 0
               /\ due => /\ monsters_to_spawn' = monsters_to_spawn - 1
                         /\ spawn_timer' = 0
               /\ ~due => monsters_to_spawn' = monsters_to_spawn
               /\ monsters_to_spawn' >= 0
               /\ Cardinality(Ids(active_monsters') \ Ids(active_monsters)) <= n
               /\ wave_completed'
                  => /\ ~wave_active'
                     /\ ret'.val.spawned = ret'.val.quota
                     /\ ret'.val.quota
                          = IF IsBossWave(current_wave) THEN 1
                            ELSE RegularWaveCount(current_wave) ]_vars

\* C31: wave 1 has run to completion, its five monsters spawned
C31_Witness ==
    /\ current_wave = 1
    /\ wave_completed /\ ~wave_active
    /\ ret.op = "update"
    /\ ret.val.spawned = WAVE_MONSTER_COUNT_BASE
    /\ monsters_to_spawn = 0 /\ active_monsters = << >>


\* C32: an active wave of at most MaxQuota monsters, whose updates keep
\* arriving and whose monsters leave the field, is eventually marked
\* completed, with wave_active false
C32_ActiveWaveCompletes ==
    (wave_active /\ ret.val.quota <= MaxQuota)
        ~> (wave_completed /\ ~wave_active)

\* C32: a boss wave that was active has been marked completed
C32_Witness ==
    /\ IsBossWave(current_wave)
    /\ ret.op = "update" /\ ret.val.spawned = 1
    /\ wave_completed /\ ~wave_active


(***************************************************************************)
(* Properties of the loot the scheduler credits.                           *)
(***************************************************************************)
\* the monsters of active_monsters that a tower has killed
KilledOnField ==
    { i \in DOMAIN active_monsters :
        active_monsters[i].is_dead /\ ~active_monsters[i].reached_castle }

\* C33: an update that removes only monsters that reached the castle leaves
\* the ledger as it was; an update or a handle_monster_death call credits 1
\* Monster Coin for each killed regular monster it handles and changes no
\* other resource; handle_monster_death for a monster that is not in
\* active_monsters leaves the ledger as it was
C33_LootRules ==
    [][ /\ ret'.op = "update" /\ wave_active
           => /\ KilledOnField = { } => resources' = resources
              /\ ~IsBossWave(current_wave)
                 => resources' =
                      [ resources EXCEPT !["Monster Coins"] =
                          @ + KILL_COINS * Cardinality(KilledOnField) ]
        /\ ret'.op = "handle_monster_death"
           => LET known == { i \in DOMAIN active_monsters :
                               active_monsters[i].id = ret'.args[1] }
              IN  /\ known = { } => resources' = resources
                  /\ \A i \in known :
                       ~IsBoss(active_monsters[i])
                       => resources' =
                            [ resources EXCEPT !["Monster Coins"] =
                                @ + KILL_COINS ] ]_vars

\* C33: an update has removed a regular monster that reached the castle and
\* one a tower had killed, and 1 Monster Coin was credited
C33_Witness ==
    /\ current_wave = 1
    /\ ret.op = "update"
    /\ active_monsters = << >>
    /\ castle_health = CastleMaxHealth - 1
    /\ resources["Monster Coins"]
         = INITIAL_RESOURCES["Monster Coins"] + KILL_COINS


(***************************************************************************)
(* Properties of the items of the ledger and of the tower slots.           *)
(***************************************************************************)
\* the units of an item equipped in the slots of a tower
Equipped(t, item) ==
    Cardinality({ i \in DOMAIN t.item_slots : t.item_slots[i] = item })

\* C34: for each kind of item, the units the ledger holds plus the units
\* equipped in the tower's slots are the same after an add_item or remove_item
\* call as before it
C34_ItemsConserved ==
    [][ ret'.op \in { "add_item", "remove_item" }
        => \A item \in Items :
             resources'[item] + Equipped(towers'[1], item)
               = resources[item] + Equipped(towers[1], item) ]_vars


(***************************************************************************)
(* Properties of the collections of the Playing state.                     *)
(***************************************************************************)
\* the building site between waves, continuous mode off: towers are placed,
\* saves are loaded and the Playing state is updated
InitLoad ==
    /\ current_state = "playing"
    /\ current_wave = 0
    /\ active_monsters = << >>
    /\ spawn_timer = 0
    /\ monsters_to_spawn = 0
    /\ wave_active = FALSE
    /\ wave_completed = TRUE
    /\ continuous_wave = FALSE
    /\ castle_health = CastleMaxHealth
    /\ resources \in TowerLedgers
    /\ towers = << >>
    /\ playing_towers = << >>
    /\ towers_rebound = FALSE
    /\ placement_type = None
    /\ time_in_state = 0
    /\ go_current_wave = 0
    /\ setback_wave = 1
    /\ ret = NoCall
    /\ is_paused = FALSE
    /\ paused = FALSE
    /\ autosaved = 0
    /\ calls = change_state_calls("main_menu", "playing")

NextLoad ==
    \/ \E ty \in TowerTypes : EnterTowerPlacement(ty)
    \/ \E position \in 0..MaxPos : PlaceTower(position)
    \/ CancelPlacement
    \/ \E g \in SavedGames : LoadGame(g)
    \/ PlayingTick

SpecLoad == InitLoad /\ [][NextLoad]_vars

\* C35: the towers the Playing state updates and draws are the towers of
\* Game.towers, also after load_game
C35_PlayingHoldsGameTowers == playing_towers = towers


(***************************************************************************)
(* Properties of the update in which the castle falls.                     *)
(***************************************************************************)
\* C36: at the end of a Playing update that switches to game_over, the
\* scheduler's wave number is the wave number GameOverState.enter recorded
C36_NoWaveStartAfterGameOver ==
    [][ current_state = "playing" /\ current_state' = "game_over"
        => current_wave' = go_current_wave' ]_vars


(***************************************************************************)
(* Properties of the pause flags.                                          *)
(***************************************************************************)
\* C37: between events, GameUI.is_paused and PlayingState.paused are true
\* exactly when the active state is paused
C37_PauseFlagsFollowState ==
    /\ is_paused <=> current_state = "paused"
    /\ paused <=> current_state = "paused"

\* C37: the game has been paused in the middle of a wave, with a monster on
\* the field, and both flags are set
C37_Witness ==
    /\ current_state = "paused"
    /\ is_paused /\ paused
    /\ calls = change_state_calls("playing", "paused")
    /\ wave_active /\ active_monsters # << >>


(***************************************************************************)
(* Properties of the updates outside the Playing state.                    *)
(***************************************************************************)
\* C38: a step that starts and ends in the TowerPlacement state, or starts
\* and ends in the GameOver state, leaves the wave number, the spawn quota,
\* the spawn timer, the active monsters, every tower's attack timer and the
\* castle's health as they were
C38_OnlyPlayingAdvancesSimulation ==
    [][ /\ current_state \in { "tower_placement", "game_over" }
        /\ current_state' = current_state
        => /\ current_wave' = current_wave
           /\ monsters_to_spawn' = monsters_to_spawn
           /\ spawn_timer' = spawn_timer
           /\ active_monsters' = active_monsters
           /\ castle_health' = castle_health
           /\ Len(towers') = Len(towers)
           /\ \A i \in DOMAIN towers :
                towers'[i].attack_timer = towers[i].attack_timer
           /\ Len(playing_towers') = Len(playing_towers)
           /\ \A i \in DOMAIN playing_towers :
                playing_towers'[i].attack_timer = playing_towers[i].attack_timer
      ]_vars

\* C38: an update has run in the TowerPlacement state in the middle of a
\* wave, with a monster on the field and monsters still to spawn
C38_Witness ==
    /\ current_state = "tower_placement"
    /\ calls = << >>
    /\ wave_active /\ active_monsters # << >>
    /\ monsters_to_spawn > 0


(***************************************************************************)
(* Properties of the autosave.                                             *)
(***************************************************************************)
\* C39: the autosave of a completed boss wave is written by one Playing update
\* and not again by the update that follows it
C39_AutosaveOncePerCompletion == autosaved <= 1

=============================================================================
